---- MODULE Spec2Model ----
(***************************************************************************)
(* A model of the consensus core of the ledger: the Blockchain state       *)
(* machine (lib/src/types/blockchain.rs), block and transaction validation *)
(* (lib/src/types/block.rs), the Merkle root and the hash type.            *)
(*                                                                         *)
(* Hash::hash (SHA-256 over the CBOR encoding) is modelled symbolically:   *)
(* the digest of a value is the pair (kind of value, value), so two        *)
(* digests are equal exactly when the same kind of value with the same     *)
(* content was hashed (no collisions), and the hash of a transaction       *)
(* differs from the hash of any of its outputs, the hash of a block from   *)
(* the hash of its header.  The magnitude of a header digest, which the    *)
(* proof-of-work test compares with the target, is HashValue.              *)
(*                                                                         *)
(* Widths and durations are scaled: U256 is HASH_BITS wide, u64 is         *)
(* U64_BITS wide, and the protocol constants keep their relations          *)
(* (MIN_TARGET has its top bits zero so that MIN_TARGET * 4 does not       *)
(* overflow, the reward halves every HALVING_INTERVAL blocks, ...).        *)
(***************************************************************************)
EXTENDS Integers, Sequences, FiniteSets, TLC

(* ------------------------------ bounds -------------------------------- *)
\* number of key pairs
NumKeys == 2
\* a block's nonce ranges over 0..MaxNonce
MaxNonce == 1
\* the wall clock (Utc::now) ranges over 0..MaxNow
MaxNow == 2
\* the mempool holds at most MaxMempool entries in the model
MaxMempool == 2
\* the chain holds at most MaxBlocks blocks in the model
MaxBlocks == 2
\* number of connections the node accepts
NumConns == 2
\* number of peers in NODES
NumPeers == 2
\* a loaded chain on which the rewards are computed holds at most MaxHeight blocks
MaxHeight == 7
\* the mined-block channel holds at most MaxChannel blocks in the model
MaxChannel == 1
\* the sockets that connect to the listener are numbered 1 to MaxSockets
MaxSockets == 5

(* ------------------------- program constants -------------------------- *)
\* width of u64, scaled
U64_BITS == 3
U64_MAX == 2 ^ U64_BITS - 1
\* width of U256, scaled
HASH_BITS == 8
U256_MAX == 2 ^ HASH_BITS - 1
\* lib.rs MIN_TARGET: the top bits zero, every other bit one
MIN_TARGET == 2 ^ (HASH_BITS - 2) - 1
\* lib.rs INITIAL_REWARD * 10^8, scaled to base units
INITIAL_REWARD == 4
HALVING_INTERVAL == 2
IDEAL_BLOCK_TIME == 3
DIFFICULTY_UPDATE_INTERVAL == 2
MAX_MEMPOOL_TX_AGE == 1
BLOCK_TRANSACTION_CAP == 2

Keys == 1 .. NumKeys

(* ------------------------------ hashing ------------------------------- *)
\* Hash::zero()
Zero == [kind |-> "zero", of |-> 0]

\* Hash::hash(data): the digest of a value of the given kind
Hash(kind, data) == [kind |-> kind, of |-> data]

\* TransactionOutput::hash
OutputHash(o) == Hash("output", o)

\* Transaction::hash
TxHash(tx) == Hash("tx", tx)

\* BlockHeader::hash
HeaderHash(h) == Hash("header", h)

\* Block::hash
BlockHash(b) == Hash("block", b)

RECURSIVE SumSeq(_)
\* the exact sum of a sequence of numbers
SumSeq(s) == IF s = <<>> THEN 0 ELSE Head(s) + SumSeq(Tail(s))

RECURSIVE Weight(_)
\* a number derived from the content a digest was computed from
Weight(h) ==
  CASE h.kind = "zero" -> 0
    [] h.kind = "output" -> 1 + h.of.value + 2 * h.of.unique_id + h.of.pubkey
    [] h.kind = "tx" ->
         3 + 5 * Len(h.of.inputs)
           + SumSeq([i \in 1 .. Len(h.of.outputs) |-> 1 + h.of.outputs[i].value])
    [] h.kind = "pair" -> 1 + Weight(h.of[1]) + 2 * Weight(h.of[2])
    [] h.kind = "header" -> 2 + h.of.timestamp + 3 * h.of.nonce
    [] h.kind = "block" -> 4 + h.of.header.timestamp + 3 * h.of.header.nonce

\* the U256 value of a header's digest: every field of the header enters it
HashValue(h) ==
  (97 * h.nonce + 5 * h.timestamp + 2 * Weight(h.prev_block_hash)
     + 3 * Weight(h.merkle_root) + 7 * h.target) % (U256_MAX + 1)

\* Hash::matches_target, for the digest of header h
MatchesTarget(h, t) == HashValue(h) <= t

(* ----------------------------- signatures ----------------------------- *)
\* Signature::sign_output(output_hash, private_key)
Sign(h, k) == [key |-> k, msg |-> h]

\* Signature::verify(output_hash, public_key)
Verify(sig, h, pk) == sig.key = pk /\ sig.msg = h

(* ----------------------------- data model ----------------------------- *)
Output(v, id, k) == [value |-> v, unique_id |-> id, pubkey |-> k]

Input(h, sig) == [prev_transaction_output_hash |-> h, signature |-> sig]

Tx(ins, outs) == [inputs |-> ins, outputs |-> outs]

Header(ts, n, prev, mr, t) ==
  [timestamp |-> ts, nonce |-> n, prev_block_hash |-> prev, merkle_root |-> mr,
   target |-> t]

Block(h, txs) == [header |-> h, transactions |-> txs]

(* ---------------------------- Merkle root ----------------------------- *)
RECURSIVE PairUp(_)
\* one pass of the while loop of MerkleRoot::calculate: chunks(2), the last
\* element of an odd layer is paired with itself
PairUp(layer) ==
  IF layer = <<>> THEN <<>>
  ELSE IF Len(layer) = 1 THEN <<Hash("pair", <<layer[1], layer[1]>>)>>
  ELSE <<Hash("pair", <<layer[1], layer[2]>>)>> \o PairUp(SubSeq(layer, 3, Len(layer)))

RECURSIVE Reduce(_)
Reduce(layer) == IF Len(layer) > 1 THEN Reduce(PairUp(layer)) ELSE layer

\* MerkleRoot::calculate indexes layer[0]: on an empty list it panics
MerkleRootPanics(txs) == txs = <<>>

\* MerkleRoot::calculate(transactions), for a non-empty list
MerkleRoot(txs) == Reduce([i \in 1 .. Len(txs) |-> TxHash(txs[i])])[1]

(* ------------------------- u64 arithmetic ----------------------------- *)
\* a u64 value wrapped to its width (a build without overflow checks)
Wrap(x) == x % (U64_MAX + 1)

\* an addition or sum whose exact result is x overflows u64
Overflows(x) == x > U64_MAX

(* --------------------- block.rs: miner fees --------------------------- *)
\* the values of a sequence of outputs
Values(outs) == [i \in 1 .. Len(outs) |-> outs[i].value]

RECURSIVE FeeInputs(_, _, _)
\* calculated_miner_fees, the loop over one transaction's inputs: seen is the
\* `inputs` map (hash -> referenced output); the result is an error or the map
FeeInputs(ins, seen, utxos) ==
  IF ins = <<>> THEN [res |-> "Ok", seen |-> seen]
  ELSE LET h == Head(ins).prev_transaction_output_hash IN
       IF h \in DOMAIN seen THEN [res |-> "DoubleSpending", seen |-> seen]
       ELSE IF h \notin DOMAIN utxos THEN [res |-> "InvalidTransaction", seen |-> seen]
       ELSE FeeInputs(Tail(ins), [x \in DOMAIN seen \cup {h} |->
                                    IF x = h THEN utxos[h][2] ELSE seen[x]], utxos)

RECURSIVE FeeOutputs(_, _)
\* calculated_miner_fees, the loop over one transaction's outputs: seen is the
\* `outputs` map, keyed by the output's own hash
FeeOutputs(outs, seen) ==
  IF outs = <<>> THEN [res |-> "Ok", seen |-> seen]
  ELSE LET h == OutputHash(Head(outs)) IN
       IF h \in DOMAIN seen THEN [res |-> "DoubleSpending", seen |-> seen]
       ELSE FeeOutputs(Tail(outs), [x \in DOMAIN seen \cup {h} |->
                                      IF x = h THEN Head(outs) ELSE seen[x]])

RECURSIVE FeeScan(_, _, _, _)
\* calculated_miner_fees, the loop over transactions[1..]
FeeScan(txs, ins, outs, utxos) ==
  IF txs = <<>> THEN [res |-> "Ok", inputs |-> ins, outputs |-> outs]
  ELSE LET a == FeeInputs(Head(txs).inputs, ins, utxos) IN
       IF a.res # "Ok" THEN [res |-> a.res, inputs |-> ins, outputs |-> outs]
       ELSE LET b == FeeOutputs(Head(txs).outputs, outs) IN
            IF b.res # "Ok" THEN [res |-> b.res, inputs |-> ins, outputs |-> outs]
            ELSE FeeScan(Tail(txs), a.seen, b.seen, utxos)

RECURSIVE SumMap(_)
\* the exact sum of the values of a map hash -> output
SumMap(m) ==
  IF DOMAIN m = {} THEN 0
  ELSE LET h == CHOOSE x \in DOMAIN m : TRUE IN
       m[h].value + SumMap([x \in DOMAIN m \ {h} |-> m[x]])

\* Block::calculated_miner_fees(utxos); checks: the build panics on overflow
CalculatedMinerFees(txs, utxos, checks) ==
  LET s == FeeScan(Tail(txs), << >>, << >>, utxos) IN
  IF s.res # "Ok" THEN [res |-> s.res, fee |-> 0]
  ELSE LET iv == SumMap(s.inputs)
           ov == SumMap(s.outputs) IN
       IF checks /\ (Overflows(iv) \/ Overflows(ov)) THEN [res |-> "panic", fee |-> 0]
       ELSE IF Wrap(iv) >= Wrap(ov) THEN [res |-> "Ok", fee |-> Wrap(iv) - Wrap(ov)]
       ELSE [res |-> "InvalidTransaction", fee |-> 0]

(* --------------------- block.rs: the coinbase ------------------------- *)
\* the divisor 2u64.pow(h / HALVING_INTERVAL) overflows: a panic with overflow
\* checks, a division by zero without
RewardPanics(h) == h \div HALVING_INTERVAL >= U64_BITS

\* block.rs:100 INITIAL_REWARD * 10^8 / 2^(height / HALVING_INTERVAL)
BlockReward(h) == INITIAL_REWARD \div (2 ^ (h \div HALVING_INTERVAL))

\* Block::verify_coinbase_transaction(predicted_block_height, utxos)
VerifyCoinbaseTransaction(txs, h, utxos, checks) ==
  LET cb == txs[1] IN
  IF cb.inputs # <<>> THEN "InvalidTransaction"
  ELSE IF cb.outputs = <<>> THEN "InvalidTransaction"
  ELSE LET f == CalculatedMinerFees(txs, utxos, checks) IN
       IF f.res # "Ok" THEN f.res
       ELSE IF RewardPanics(h) THEN "panic"
       ELSE LET total == SumSeq(Values(cb.outputs))
                due == BlockReward(h) + f.fee IN
            IF checks /\ (Overflows(total) \/ Overflows(due)) THEN "panic"
            ELSE IF Wrap(total) # Wrap(due) THEN "InvalidTransaction"
            ELSE "Ok"

(* ------------------ block.rs: verify_transactions --------------------- *)
RECURSIVE VerifyInputs(_, _, _, _, _)
\* the loop over one transaction's inputs: seen is the `inputs` map's key set,
\* acc the exact running input_value
VerifyInputs(ins, seen, acc, utxos, checks) ==
  IF ins = <<>> THEN [res |-> "Ok", seen |-> seen, value |-> acc]
  ELSE LET h == Head(ins).prev_transaction_output_hash IN
       IF h \notin DOMAIN utxos THEN [res |-> "InvalidTransaction", seen |-> seen, value |-> acc]
       ELSE IF h \in seen THEN [res |-> "DoubleSpending", seen |-> seen, value |-> acc]
       ELSE IF ~Verify(Head(ins).signature, h, utxos[h][2].pubkey)
            THEN [res |-> "InvalidSignature", seen |-> seen, value |-> acc]
       ELSE IF checks /\ Overflows(acc + utxos[h][2].value)
            THEN [res |-> "panic", seen |-> seen, value |-> acc]
       ELSE VerifyInputs(Tail(ins), seen \cup {h}, Wrap(acc + utxos[h][2].value),
                         utxos, checks)

RECURSIVE VerifyEach(_, _, _, _)
\* the loop `for transaction in &self.transactions` of verify_transactions
VerifyEach(txs, seen, utxos, checks) ==
  IF txs = <<>> THEN "Ok"
  ELSE LET a == VerifyInputs(Head(txs).inputs, seen, 0, utxos, checks) IN
       IF a.res # "Ok" THEN a.res
       ELSE LET ov == SumSeq(Values(Head(txs).outputs)) IN
            IF checks /\ Overflows(ov) THEN "panic"
            ELSE IF a.value < Wrap(ov) THEN "InvalidTransaction"
            ELSE VerifyEach(Tail(txs), a.seen, utxos, checks)

\* verify_transactions refusing an input whose utxo is reserved
VerifyTransactionsUnreserved(txs, h, utxos, checks) ==
  IF txs = <<>> THEN "InvalidTransaction"
  ELSE IF \E i \in DOMAIN txs : \E j \in DOMAIN txs[i].inputs :
            LET o == txs[i].inputs[j].prev_transaction_output_hash
            IN o \in DOMAIN utxos /\ utxos[o][1]
       THEN "InvalidTransaction"
  ELSE LET c == VerifyCoinbaseTransaction(txs, h, utxos, checks) IN
       IF c # "Ok" THEN c
       ELSE VerifyEach(txs, {}, utxos, checks)

\* Block::verify_transactions(predicted_block_height, utxos)
VerifyTransactions(txs, h, utxos, checks) ==
  IF txs = <<>> THEN "InvalidTransaction"
  ELSE LET c == VerifyCoinbaseTransaction(txs, h, utxos, checks) IN
       IF c # "Ok" THEN c
       ELSE VerifyEach(txs, {}, utxos, checks)

(* ----------------------- blockchain.rs: state ------------------------- *)
VARIABLES
  blocks,   \* Blockchain.blocks: Vec<Block>
  utxos,    \* Blockchain.utxos: HashMap<Hash, (bool, TransactionOutput)>
  target,   \* Blockchain.target: U256
  mempool,  \* Blockchain.mempool: Vec<(DateTime<Utc>, Transaction)>
  now,      \* the wall clock read by Utc::now()
  last,     \* the last call made on the blockchain: operation, argument, result
  overflow_checks,  \* the build panics on integer overflow (debug) or wraps (release)
  live,     \* the connections whose handle_connection task is running
  guard,    \* the holder of the BLOCKCHAIN write lock and what it does next
  nodes,    \* NODES: for every peer, the message last written to its stream
  replies,  \* the messages written to a connection's socket in answer to the
            \* message handled last
  permits,  \* main: the permits left in the connection_limit semaphore
  file,     \* the bytes Saveable::save wrote last
  miner,    \* the Miner: stream, current_template, mining, mined-block channel
  running,  \* online_miner main: the shared flag cleared on Ctrl+C
  block,    \* the block whose header a mining loop works on
  pc,       \* where a client or a starting node is in its exchange
  stream,   \* the bytes of a stream that Message::receive reads
  buffer,   \* the buffer Message::receive allocated for the payload
  usize_bits,  \* the width of usize on the build's target
  core      \* the wallet's Core: its fee configuration, my_keys and utxos

\* the state of the programs around the Blockchain and its connection handlers
others == <<permits, file, miner, running, block, pc, stream, buffer, usize_bits, core>>

vars == <<blocks, utxos, target, mempool, now, last, overflow_checks, live, guard, nodes, replies, others>>

\* the record of a call
Call(op, arg, res) == [op |-> op, arg |-> arg, res |-> res]

\* the connections accepted by the node, and the keys of NODES
Conns == 1 .. NumConns
Peers == 1 .. NumPeers

\* the first connection is opened by a miner or wallet, the others by peers
Clients == {1}

\* the BLOCKCHAIN write lock held by no task
Unlocked == [holder |-> 0, next |-> "none", msg |-> <<>>]

\* a Blockchain used without a node: no connection, the lock free, nothing sent
NoNode ==
  /\ live = {}
  /\ guard = Unlocked
  /\ nodes = [p \in Peers |-> <<>>]
  /\ replies = <<>>

\* main.rs MAX_CONNECTIONS, scaled
MAX_CONNECTIONS == 2

\* no miner started
NoMiner == [stream |-> "none", current_template |-> <<>>, mining |-> FALSE,
            mined_block |-> <<>>]

\* no wallet runs
NoCore == [fee |-> <<>>, my_keys |-> <<>>, utxos |-> <<>>]

\* nothing but the Blockchain (and the node's handlers) runs: no file saved, no
\* miner, no stream being read; usize as wide as u64
Idle ==
  /\ permits = MAX_CONNECTIONS
  /\ file = <<>>
  /\ miner = NoMiner
  /\ running = TRUE
  /\ block = <<>>
  /\ pc = "serve"
  /\ stream = <<>>
  /\ buffer = <<>>
  /\ usize_bits = U64_BITS
  /\ core = NoCore

(* ------------------- blockchain.rs: add_block ------------------------- *)
\* a mutation of add_block's checks: no timestamp test
AddBlockCheckNoTimestamp(bs, us, b, checks) ==
  IF bs = <<>>
  THEN IF b.header.prev_block_hash # Zero THEN "InvalidBlock" ELSE "Ok"
  ELSE IF b.header.prev_block_hash # HeaderHash(bs[Len(bs)].header) THEN "InvalidBlock"
  ELSE IF ~MatchesTarget(b.header, b.header.target) THEN "InvalidBlock"
  ELSE IF MerkleRootPanics(b.transactions) THEN "panic"
  ELSE IF b.header.merkle_root # MerkleRoot(b.transactions) THEN "InvalidMerkleRoot"
  ELSE VerifyTransactions(b.transactions, Len(bs), us, checks)

\* a mutation of add_block's checks: the genesis branch also tests the
\* proof of work
AddBlockCheckGenesisPow(bs, us, b, checks) ==
  IF bs = <<>>
  THEN IF b.header.prev_block_hash # Zero \/ ~MatchesTarget(b.header, b.header.target)
       THEN "InvalidBlock" ELSE "Ok"
  ELSE IF b.header.prev_block_hash # HeaderHash(bs[Len(bs)].header) THEN "InvalidBlock"
  ELSE IF ~MatchesTarget(b.header, b.header.target) THEN "InvalidBlock"
  ELSE IF MerkleRootPanics(b.transactions) THEN "panic"
  ELSE IF b.header.merkle_root # MerkleRoot(b.transactions) THEN "InvalidMerkleRoot"
  ELSE IF b.header.timestamp <= bs[Len(bs)].header.timestamp THEN "InvalidBlockHeader"
  ELSE VerifyTransactions(b.transactions, Len(bs), us, checks)

\* a mutation of add_block's checks: no linkage test in either branch
AddBlockCheckNoLinkage(bs, us, b, checks) ==
  IF bs = <<>> THEN "Ok"
  ELSE IF ~MatchesTarget(b.header, b.header.target) THEN "InvalidBlock"
  ELSE IF MerkleRootPanics(b.transactions) THEN "panic"
  ELSE IF b.header.merkle_root # MerkleRoot(b.transactions) THEN "InvalidMerkleRoot"
  ELSE IF b.header.timestamp <= bs[Len(bs)].header.timestamp THEN "InvalidBlockHeader"
  ELSE VerifyTransactions(b.transactions, Len(bs), us, checks)

\* a mutation of add_block's checks: no proof-of-work test
AddBlockCheckNoPow(bs, us, b, checks) ==
  IF bs = <<>>
  THEN IF b.header.prev_block_hash # Zero THEN "InvalidBlock" ELSE "Ok"
  ELSE IF b.header.prev_block_hash # HeaderHash(bs[Len(bs)].header) THEN "InvalidBlock"
  ELSE IF MerkleRootPanics(b.transactions) THEN "panic"
  ELSE IF b.header.merkle_root # MerkleRoot(b.transactions) THEN "InvalidMerkleRoot"
  ELSE IF b.header.timestamp <= bs[Len(bs)].header.timestamp THEN "InvalidBlockHeader"
  ELSE VerifyTransactions(b.transactions, Len(bs), us, checks)

\* add_block, lines 54-110: the checks, in the order of the code; the result
\* is "Ok", an error kind, or "panic"
AddBlockCheck(bs, us, b, checks) ==
  IF bs = <<>>
  THEN IF b.header.prev_block_hash # Zero THEN "InvalidBlock" ELSE "Ok"
  ELSE IF b.header.prev_block_hash # HeaderHash(bs[Len(bs)].header) THEN "InvalidBlock"
  ELSE IF ~MatchesTarget(b.header, b.header.target) THEN "InvalidBlock"
  ELSE IF MerkleRootPanics(b.transactions) THEN "panic"
  ELSE IF b.header.merkle_root # MerkleRoot(b.transactions) THEN "InvalidMerkleRoot"
  ELSE IF b.header.timestamp <= bs[Len(bs)].header.timestamp THEN "InvalidBlockHeader"
  ELSE VerifyTransactions(b.transactions, Len(bs), us, checks)

RECURSIVE RetainUnmined(_, _)
\* self.mempool.retain(|tx| !block_transactions.contains(&tx.1.hash()))
RetainUnmined(mp, mined) ==
  IF mp = <<>> THEN <<>>
  ELSE IF TxHash(Head(mp)[2]) \in mined THEN RetainUnmined(Tail(mp), mined)
  ELSE <<Head(mp)>> \o RetainUnmined(Tail(mp), mined)

\* add_block, lines 112-115: the mempool without the block's transactions
MempoolWithout(mp, b) ==
  RetainUnmined(mp, {TxHash(b.transactions[i]) : i \in 1 .. Len(b.transactions)})

(* --------------- blockchain.rs: try_adjust_target --------------------- *)
\* decimal places kept by the BigDecimal quotient (scaled)
DIV_PLACES == 3

\* BigDecimal::from(time_diff_seconds) / BigDecimal::from(target_seconds), as
\* thousandths: exact when the quotient terminates, otherwise rounded half up
\* in the last place kept
Ratio(dt, ideal) ==
  LET n == dt * 10 ^ DIV_PLACES IN
  IF n % ideal = 0 THEN n \div ideal ELSE (2 * n + ideal) \div (2 * ideal)

\* a mutation of try_adjust_target: the final min(MIN_TARGET) is left out
AdjustedTargetNoMin(bs, t) ==
  IF bs = <<>> THEN [res |-> "Ok", target |-> t]
  ELSE IF Len(bs) % DIFFICULTY_UPDATE_INTERVAL # 0 THEN [res |-> "Ok", target |-> t]
  ELSE LET start_time == bs[Len(bs) - DIFFICULTY_UPDATE_INTERVAL + 1].header.timestamp
           end_time == bs[Len(bs)].header.timestamp
           time_diff_seconds == end_time - start_time
           target_seconds == IDEAL_BLOCK_TIME * DIFFICULTY_UPDATE_INTERVAL
       IN IF time_diff_seconds < 0 THEN [res |-> "panic", target |-> t]
          ELSE LET new_target ==
                     (t * Ratio(time_diff_seconds, target_seconds)) \div 10 ^ DIV_PLACES
               IN IF new_target > U256_MAX THEN [res |-> "panic", target |-> t]
                  ELSE IF new_target < t \div 4 THEN [res |-> "Ok", target |-> t \div 4]
                  ELSE IF t * 4 > U256_MAX THEN [res |-> "panic", target |-> t]
                  ELSE [res |-> "Ok",
                        target |-> IF new_target > t * 4 THEN t * 4 ELSE new_target]

\* the outcome of try_adjust_target on blocks bs and target t: the new target,
\* or a panic of one of its expect() calls or of the U256 multiplication
AdjustedTarget(bs, t) ==
  IF bs = <<>> THEN [res |-> "Ok", target |-> t]
  ELSE IF Len(bs) % DIFFICULTY_UPDATE_INTERVAL # 0 THEN [res |-> "Ok", target |-> t]
  ELSE LET start_time == bs[Len(bs) - DIFFICULTY_UPDATE_INTERVAL + 1].header.timestamp
           end_time == bs[Len(bs)].header.timestamp
           time_diff_seconds == end_time - start_time
           target_seconds == IDEAL_BLOCK_TIME * DIFFICULTY_UPDATE_INTERVAL
       IN IF time_diff_seconds < 0 THEN [res |-> "panic", target |-> t]
          ELSE LET new_target ==
                     (t * Ratio(time_diff_seconds, target_seconds)) \div 10 ^ DIV_PLACES
               IN IF new_target > U256_MAX THEN [res |-> "panic", target |-> t]
                  ELSE IF new_target < t \div 4
                       THEN [res |-> "Ok", target |-> IF t \div 4 < MIN_TARGET THEN t \div 4 ELSE MIN_TARGET]
                  ELSE IF t * 4 > U256_MAX THEN [res |-> "panic", target |-> t]
                  ELSE LET clamped == IF new_target > t * 4 THEN t * 4 ELSE new_target
                       IN [res |-> "Ok",
                           target |-> IF clamped < MIN_TARGET THEN clamped ELSE MIN_TARGET]

(* ----------------- blockchain.rs: rebuild_utxos ----------------------- *)
\* the map m without key h
Remove(m, h) == [x \in DOMAIN m \ {h} |-> m[x]]

\* the map m with key h set to v
Insert(m, h, v) == [x \in DOMAIN m \cup {h} |-> IF x = h THEN v ELSE m[x]]

RECURSIVE RemoveInputs(_, _)
\* for input in tx.inputs(): utxos.remove(prev_transaction_output_hash)
RemoveInputs(m, ins) ==
  IF ins = <<>> THEN m
  ELSE RemoveInputs(Remove(m, Head(ins).prev_transaction_output_hash), Tail(ins))

RECURSIVE ExtendOutputs(_, _, _)
\* utxos.extend(tx.outputs().iter().map(|o| (tx.hash(), (false, o.clone())))):
\* every output of tx is inserted under the hash of tx
ExtendOutputs(m, tx, outs) ==
  IF outs = <<>> THEN m
  ELSE ExtendOutputs(Insert(m, TxHash(tx), <<FALSE, Head(outs)>>), tx, Tail(outs))

RECURSIVE RebuildTxs(_, _)
\* the loop over one block's transactions
RebuildTxs(m, txs) ==
  IF txs = <<>> THEN m
  ELSE RebuildTxs(ExtendOutputs(RemoveInputs(m, Head(txs).inputs), Head(txs),
                                Head(txs).outputs), Tail(txs))

RECURSIVE RebuiltUtxos(_, _)
\* rebuild_utxos: the loop over the blocks, starting from the current map
RebuiltUtxos(m, bs) ==
  IF bs = <<>> THEN m
  ELSE RebuiltUtxos(RebuildTxs(m, Head(bs).transactions), Tail(bs))

(* ------------ blockchain.rs: add_transaction_to_mempool --------------- *)
RECURSIVE KnownInputs(_, _, _)
\* lines 190-205: every input references a key of utxos, and no two inputs
\* reference the same hash
KnownInputs(ins, known, us) ==
  IF ins = <<>> THEN TRUE
  ELSE LET h == Head(ins).prev_transaction_output_hash IN
       /\ h \in DOMAIN us
       /\ h \notin known
       /\ KnownInputs(Tail(ins), known \cup {h}, us)

RECURSIVE Unmark(_, _)
\* set the reserved flag of every utxo referenced by ins (and present) to false
Unmark(us, ins) ==
  IF ins = <<>> THEN us
  ELSE LET h == Head(ins).prev_transaction_output_hash IN
       Unmark(IF h \in DOMAIN us THEN [us EXCEPT ![h] = <<FALSE, us[h][2]>>] ELSE us,
              Tail(ins))

\* the entries of mp whose transaction has an output with hash h
Producers(mp, h) ==
  {i \in 1 .. Len(mp) :
     \E j \in 1 .. Len(mp[i][2].outputs) : OutputHash(mp[i][2].outputs[j]) = h}

\* the sequence s without its element at index i
RemoveAt(s, i) == SubSeq(s, 1, i - 1) \o SubSeq(s, i + 1, Len(s))

RECURSIVE Displace(_, _, _)
\* lines 210-244: for every input whose utxo is reserved, the first mempool
\* transaction with an output of that hash is removed and the utxos it
\* consumed are unmarked; without such a transaction the utxo is unmarked
Displace(ins, us, mp) ==
  IF ins = <<>> THEN [utxos |-> us, mempool |-> mp]
  ELSE LET h == Head(ins).prev_transaction_output_hash IN
       IF h \in DOMAIN us /\ us[h][1]
       THEN IF Producers(mp, h) # {}
            THEN LET idx == CHOOSE i \in Producers(mp, h) :
                              \A k \in Producers(mp, h) : i <= k
                 IN Displace(Tail(ins), Unmark(us, mp[idx][2].inputs), RemoveAt(mp, idx))
            ELSE Displace(Tail(ins), [us EXCEPT ![h] = <<FALSE, us[h][2]>>], mp)
       ELSE Displace(Tail(ins), us, mp)

\* the exact sum of the values of the utxos referenced by ins
InputSum(ins, us) ==
  SumSeq([i \in 1 .. Len(ins) |-> us[ins[i].prev_transaction_output_hash][2].value])

\* the sort key's closure, lines 267-290, panics on transaction tx: an input
\* without utxo (expect), or with overflow checks a sum that overflows or a
\* fee that underflows
FeePanics(tx, us, checks) ==
  \/ \E i \in 1 .. Len(tx.inputs) : tx.inputs[i].prev_transaction_output_hash \notin DOMAIN us
  \/ /\ checks
     /\ \/ Overflows(InputSum(tx.inputs, us))
        \/ Overflows(SumSeq(Values(tx.outputs)))
        \/ Wrap(InputSum(tx.inputs, us)) < Wrap(SumSeq(Values(tx.outputs)))

\* miner_fee = all_inputs - all_outputs, in u64
MinerFee(tx, us) ==
  Wrap(Wrap(InputSum(tx.inputs, us)) - Wrap(SumSeq(Values(tx.outputs))) + U64_MAX + 1)

RECURSIVE InsertByFee(_, _, _)
\* e placed in the sorted sequence s after every entry whose fee is not smaller
InsertByFee(s, e, us) ==
  IF s = <<>> THEN <<e>>
  ELSE IF MinerFee(Head(s)[2], us) >= MinerFee(e[2], us)
       THEN <<Head(s)>> \o InsertByFee(Tail(s), e, us)
       ELSE <<e>> \o s

RECURSIVE SortByFee(_, _)
\* sort_by_key(Reverse(miner_fee)): a stable sort, descending fee
SortByFee(s, us) ==
  IF s = <<>> THEN <<>>
  ELSE InsertByFee(SortByFee(SubSeq(s, 1, Len(s) - 1), us), s[Len(s)], us)

\* add_transaction_to_mempool(transaction) at clock reading t: the result and
\* the utxos and mempool it leaves
AddTransactionToMempool(tx, us, mp, t, checks) ==
  IF ~KnownInputs(tx.inputs, {}, us)
  THEN [res |-> "InvalidTransaction", utxos |-> us, mempool |-> mp]
  ELSE LET d == Displace(tx.inputs, us, mp)
           all_inputs == InputSum(tx.inputs, d.utxos)
           all_outputs == SumSeq(Values(tx.outputs))
           pushed == Append(d.mempool, <<t, tx>>)
       IN IF checks /\ (Overflows(all_inputs) \/ Overflows(all_outputs))
          THEN [res |-> "panic", utxos |-> d.utxos, mempool |-> d.mempool]
          ELSE IF Wrap(all_inputs) < Wrap(all_outputs)
          THEN [res |-> "InvalidTransaction", utxos |-> d.utxos, mempool |-> d.mempool]
          ELSE IF Len(pushed) >= 2
                  /\ \E i \in 1 .. Len(pushed) : FeePanics(pushed[i][2], d.utxos, checks)
          \* the sort panicked: the entry is pushed, the order is left as pushed
          THEN [res |-> "panic", utxos |-> d.utxos, mempool |-> pushed]
          ELSE [res |-> "Ok", utxos |-> d.utxos, mempool |-> SortByFee(pushed, d.utxos)]

(* ---------------- blockchain.rs: cleanup_mempool ---------------------- *)
RECURSIVE Aged(_, _)
\* the entries of mp with age > MAX_MEMPOOL_TX_AGE at clock reading t
Aged(mp, t) ==
  IF mp = <<>> THEN <<>>
  ELSE IF t - Head(mp)[1] > MAX_MEMPOOL_TX_AGE
       THEN <<Head(mp)>> \o Aged(Tail(mp), t) ELSE Aged(Tail(mp), t)

RECURSIVE Fresh(_, _)
\* the entries of mp that cleanup_mempool retains at clock reading t
Fresh(mp, t) ==
  IF mp = <<>> THEN <<>>
  ELSE IF t - Head(mp)[1] > MAX_MEMPOOL_TX_AGE
       THEN Fresh(Tail(mp), t) ELSE <<Head(mp)>> \o Fresh(Tail(mp), t)

RECURSIVE UnmarkAll(_, _)
\* lines 315-319: unmark the utxos referenced by the removed entries
UnmarkAll(us, removed) ==
  IF removed = <<>> THEN us
  ELSE UnmarkAll(Unmark(us, Head(removed)[2].inputs), Tail(removed))

(* --------------------------- the inputs ------------------------------- *)
\* an empty map
EmptyMap == [x \in {} |-> 0]

\* the last block of a non-empty chain
Tip(bs) == bs[Len(bs)]

\* a coinbase paying v to key 1; the unique_id is fresh for the height
Coinbase(v, h) == Tx(<<>>, <<Output(v, 10 * h + 1, 1)>>)

\* a coinbase paying v - 1 to key 1 and 1 to key 2
SplitCoinbase(v, h) == Tx(<<>>, <<Output(v - 1, 10 * h + 1, 1), Output(1, 10 * h + 2, 2)>>)

\* the transactions that spend the utxo under key k to key 2: signed by its
\* owner and paying its value less 1 or its value, signed by another key, and
\* signed by its owner but paying one more than its value
Spends(us, k, id) ==
  LET v == us[k][2].value
      owner == us[k][2].pubkey
  IN {Tx(<<Input(k, Sign(k, owner))>>, <<Output(x, id, 2)>>) :
        x \in {v - 1, v, v + 1} \cap 0 .. U64_MAX}
     \cup {Tx(<<Input(k, Sign(k, s))>>, <<Output(v, id, 2)>>) : s \in Keys \ {owner}}

\* the plain transaction lists of a block at height h: none, a coinbase of the
\* reward, a coinbase of one unit more
PlainLists(h) ==
  {<<>>, <<Coinbase(BlockReward(h), h)>>, <<Coinbase(BlockReward(h) + 1, h)>>}

\* the transaction that spends the utxo under key k, signed by its owner, and
\* pays nothing: the whole value is the fee
Burn(us, k, id) == Tx(<<Input(k, Sign(k, us[k][2].pubkey))>>, <<Output(0, id, 2)>>)

\* further transaction lists of a block at height h over utxos us: a coinbase
\* with two outputs, and a coinbase of reward plus fee (in u64) followed by a
\* spend
FurtherLists(h, us) ==
  {<<SplitCoinbase(BlockReward(h), h)>>}
  \cup {<<Coinbase(Wrap(BlockReward(h)
                        + CalculatedMinerFees(<<Coinbase(0, h), sp>>, us, FALSE).fee), h), sp>> :
          sp \in UNION {Spends(us, k, 10 * h + 3) \cup {Burn(us, k, 10 * h + 3)} :
                          k \in DOMAIN us}}

\* a Merkle root that belongs to none of the offered lists
OtherRoot == TxHash(Tx(<<>>, <<Output(0, 0, 1)>>))

\* a header hash that is neither zero nor the hash of any header of the chain
OtherHash == HeaderHash(Header(0, 0, Zero, OtherRoot, 0))

\* the hash a block offered in the current state must carry to link to the tip
TipHash == IF blocks = <<>> THEN Zero ELSE HeaderHash(Tip(blocks).header)

\* the root MerkleRoot::calculate gives for txs, or another root for no
\* transactions
RootOf(txs) == IF txs = <<>> THEN OtherRoot ELSE MerkleRoot(txs)

\* the blocks offered to add_block in the current state: the plain lists under
\* every combination of timestamp (the tip's or later), nonce, link (to the
\* tip's header hash or not) and Merkle root (of the list or not); the further
\* lists under headers that link to the tip with their own root and a later
\* timestamp
BlockChoices ==
  LET h == Len(blocks)
      tip_time == IF blocks = <<>> THEN 0 ELSE Tip(blocks).header.timestamp
      other == IF blocks = <<>> THEN OtherHash ELSE BlockHash(Tip(blocks))
  IN {Block(Header(ts, n, prev, IF own THEN RootOf(txs) ELSE OtherRoot, target), txs) :
        ts \in {tip_time, tip_time + 1}, n \in 0 .. MaxNonce, prev \in {TipHash, other},
        own \in BOOLEAN, txs \in PlainLists(h)}
     \cup {Block(Header(tip_time + 1, n, TipHash, RootOf(txs), target), txs) :
             n \in 0 .. MaxNonce, txs \in FurtherLists(h, utxos)}

\* the well-formed blocks among the offers: they link to the tip (or not, on
\* an empty chain), carry the root of their transactions and a later timestamp
FewBlocks ==
  LET h == Len(blocks)
      tip_time == IF blocks = <<>> THEN 0 ELSE Tip(blocks).header.timestamp
  IN {Block(Header(tip_time + 1, n, prev, RootOf(txs), target), txs) :
        n \in 0 .. MaxNonce, prev \in {TipHash} \cup (IF blocks = <<>> THEN {OtherHash} ELSE {}),
        txs \in {<<Coinbase(BlockReward(h), h)>>, <<SplitCoinbase(BlockReward(h), h)>>}}

\* the transaction that spends the utxo under key k, signed by its owner, and
\* pays U64_MAX and 1: the exact sum of its outputs is 2^64, which is 0 in u64
Inflation(us, k, id) ==
  Tx(<<Input(k, Sign(k, us[k][2].pubkey))>>, <<Output(U64_MAX, id, 2), Output(1, id + 1, 2)>>)

\* the transactions offered to add_transaction_to_mempool in the current
\* state: the spends of every utxo, one whose outputs overflow u64, a
\* transaction with the same input twice, and a transaction whose input is no
\* utxo
TransactionChoices ==
  UNION {Spends(utxos, k, 7) \cup {Inflation(utxos, k, 8)} : k \in DOMAIN utxos}
  \cup {Tx(<<Input(k, Sign(k, 1)), Input(k, Sign(k, 1))>>, <<Output(0, 7, 2)>>) :
          k \in DOMAIN utxos}
  \cup {Tx(<<Input(Zero, Sign(Zero, 1))>>, <<Output(0, 7, 2)>>)}

\* the offers among them that pay the whole value of a utxo, or reference none
FewTransactions ==
  {tx \in TransactionChoices :
     \A i \in 1 .. Len(tx.inputs) :
       LET k == tx.inputs[i].prev_transaction_output_hash
       IN k \in DOMAIN utxos => /\ tx.outputs[1].value = utxos[k][2].value
                                /\ tx.inputs[i].signature.key = utxos[k][2].pubkey}

(* --------------------------- the actions ------------------------------ *)
\* Blockchain::default()
Init ==
  /\ blocks = <<>>
  /\ utxos = EmptyMap
  /\ target = MIN_TARGET
  /\ mempool = <<>>
  /\ now = 0
  /\ last = Call("default", <<>>, "Ok")
  /\ overflow_checks \in BOOLEAN
  /\ NoNode
  /\ Idle

\* add_block pushing the block before it is checked
AddBlockPushFirst(offers) ==
  /\ Len(blocks) < MaxBlocks
  /\ \E b \in offers :
       LET r == AddBlockCheck(blocks, utxos, b, overflow_checks)
           adj == AdjustedTarget(Append(blocks, b), target)
       IN /\ blocks' = Append(blocks, b)
          /\ mempool' = IF r = "Ok" THEN MempoolWithout(mempool, b) ELSE mempool
          /\ target' = IF r = "Ok" THEN adj.target ELSE target
          /\ last' = Call("add_block", b, IF r = "Ok" THEN adj.res ELSE r)
          /\ UNCHANGED <<utxos, now, overflow_checks, live, guard, nodes, replies, others>>

\* add_block(block), for a block among the offers
AddBlock(offers) ==
  /\ Len(blocks) < MaxBlocks
  /\ \E b \in offers :
       LET r == AddBlockCheck(blocks, utxos, b, overflow_checks)
           adj == AdjustedTarget(Append(blocks, b), target)
       IN IF r = "Ok"
          THEN /\ mempool' = MempoolWithout(mempool, b)
               /\ blocks' = Append(blocks, b)
               /\ target' = adj.target
               /\ last' = Call("add_block", b, adj.res)
               /\ UNCHANGED <<utxos, now, overflow_checks, live, guard, nodes, replies, others>>
          ELSE /\ last' = Call("add_block", b, r)
               /\ UNCHANGED <<blocks, utxos, target, mempool, now, overflow_checks, live, guard, nodes, replies, others>>

\* try_adjust_target()
TryAdjustTarget ==
  /\ target' = AdjustedTarget(blocks, target).target
  /\ last' = Call("try_adjust_target", <<>>, AdjustedTarget(blocks, target).res)
  /\ UNCHANGED <<blocks, utxos, mempool, now, overflow_checks, live, guard, nodes, replies, others>>

\* rebuild_utxos()
RebuildUtxos ==
  /\ utxos' = RebuiltUtxos(utxos, blocks)
  /\ last' = Call("rebuild_utxos", <<>>, "Ok")
  /\ UNCHANGED <<blocks, target, mempool, now, overflow_checks, live, guard, nodes, replies, others>>

\* add_transaction_to_mempool(transaction), for a transaction among the
\* offers and a mempool below the cap; Utc::now() reads t
AddTransaction(offers, cap) ==
  /\ Len(mempool) < cap
  /\ \E tx \in offers, t \in now .. MaxNow :
       LET r == AddTransactionToMempool(tx, utxos, mempool, t, overflow_checks)
       IN /\ utxos' = r.utxos
          /\ mempool' = r.mempool
          /\ now' = t
          /\ last' = Call("add_transaction_to_mempool", tx, r.res)
          /\ UNCHANGED <<blocks, target, overflow_checks, live, guard, nodes, replies, others>>

\* cleanup_mempool(); Utc::now() reads t
CleanupMempool ==
  \E t \in now .. MaxNow :
    /\ mempool' = Fresh(mempool, t)
    /\ utxos' = UnmarkAll(utxos, Aged(mempool, t))
    /\ now' = t
    /\ last' = Call("cleanup_mempool", <<>>, "Ok")
    /\ UNCHANGED <<blocks, target, overflow_checks, live, guard, nodes, replies, others>>

\* every offered block, few transactions, a mempool of one entry
Next ==
  \/ AddBlock(BlockChoices)
  \/ TryAdjustTarget
  \/ RebuildUtxos
  \/ AddTransaction(FewTransactions, 1)
  \/ CleanupMempool

\* a Blockchain built from Blockchain::default() by calls of its methods, the
\* blocks offered in every variety
Spec == Init /\ [][Next]_vars

\* the well-formed blocks, every offered transaction
NextMempool ==
  \/ AddBlock(FewBlocks)
  \/ TryAdjustTarget
  \/ RebuildUtxos
  \/ AddTransaction(TransactionChoices, MaxMempool)
  \/ CleanupMempool

\* a Blockchain built from Blockchain::default() by calls of its methods, the
\* transactions offered in every variety
SpecMempool == Init /\ [][NextMempool]_vars

(* ------------------- a blockchain loaded from a file ------------------ *)
\* the seconds between consecutive blocks of a loaded chain
TimeGaps == {1, 2, 3, 6, 12, 30}

\* the targets of a loaded blockchain
LoadedTargets == {MIN_TARGET, 16, 5, 1, 0}

RECURSIVE ChainOf(_)
\* the chain whose blocks carry the timestamps ts: each block links to its
\* predecessor's header hash and holds the coinbase of its height
ChainOf(ts) ==
  IF ts = <<>> THEN <<>>
  ELSE LET bs == ChainOf(SubSeq(ts, 1, Len(ts) - 1))
           txs == <<Coinbase(BlockReward(Len(bs)), Len(bs))>>
       IN Append(bs, Block(Header(ts[Len(ts)], 0,
                                  IF bs = <<>> THEN Zero ELSE HeaderHash(Tip(bs).header),
                                  MerkleRoot(txs), MIN_TARGET), txs))

RECURSIVE Timelines(_)
\* the timestamp sequences of length n that start at 0 and grow by TimeGaps
Timelines(n) ==
  IF n = 0 THEN {<<>>}
  ELSE IF n = 1 THEN {<<0>>}
  ELSE {Append(ts, ts[Len(ts)] + g) : ts \in Timelines(n - 1), g \in TimeGaps}

\* Blockchain::load_from_file of a saved chain of up to MaxBlocks blocks, its
\* utxos saved before or after a rebuild (the mempool is not saved and loads
\* empty), or Blockchain::default()
InitLoaded ==
  /\ blocks \in {ChainOf(ts) : ts \in UNION {Timelines(n) : n \in 0 .. MaxBlocks}}
  /\ utxos \in {EmptyMap, RebuiltUtxos(EmptyMap, blocks)}
  /\ target \in LoadedTargets
  /\ mempool = <<>>
  /\ now = 0
  /\ last = Call("load", <<>>, "Ok")
  /\ overflow_checks \in BOOLEAN
  /\ NoNode
  /\ Idle

\* the well-formed blocks, few transactions, a mempool of one entry
NextLoaded ==
  \/ AddBlock(FewBlocks)
  \/ TryAdjustTarget
  \/ RebuildUtxos
  \/ AddTransaction(FewTransactions, 1)
  \/ CleanupMempool

\* a Blockchain loaded from a file that holds a target of at most MIN_TARGET,
\* or the default one, under calls of its methods
SpecLoaded == InitLoaded /\ [][NextLoaded]_vars

\* the blocks offered by a submitter who writes the header: the coinbase
\* alone or the further lists under their root, timed at the tip's timestamp
\* or later, linked to the tip or not, under the blockchain's target or
\* MIN_TARGET
DeclaredBlocks ==
  LET h == Len(blocks)
      tip_time == IF blocks = <<>> THEN 0 ELSE Tip(blocks).header.timestamp
  IN {Block(Header(ts, n, prev, RootOf(txs), tg), txs) :
        ts \in {tip_time, tip_time + 1}, n \in 0 .. MaxNonce, prev \in {TipHash, OtherHash},
        tg \in {target, MIN_TARGET},
        txs \in {<<Coinbase(BlockReward(h), h)>>} \cup FurtherLists(h, utxos)}

\* blocks with a declared target, on a loaded chain
NextDeclared ==
  \/ AddBlock(DeclaredBlocks)
  \/ TryAdjustTarget
  \/ RebuildUtxos

\* a Blockchain loaded from a file, offered blocks whose header declares the
\* blockchain's target or the easiest one
SpecDeclared == InitLoaded /\ [][NextDeclared]_vars

(* ------------------- the rewards along a tall chain ------------------- *)
\* Blockchain::calculate_block_reward at chain length h: the shift amount of
\* `>>` reaches the width of u64 at h / HALVING_INTERVAL >= U64_BITS, a panic
\* with overflow checks and a shift by the amount modulo the width without
CalculateBlockReward(h, checks) ==
  LET halvings == h \div HALVING_INTERVAL IN
  IF halvings < U64_BITS THEN [res |-> "Ok", reward |-> INITIAL_REWARD \div 2 ^ halvings]
  ELSE IF checks THEN [res |-> "panic", reward |-> 0]
  ELSE [res |-> "Ok", reward |-> INITIAL_REWARD \div 2 ^ (halvings % U64_BITS)]

\* Blockchain::load_from_file of a saved chain of up to MaxHeight blocks
\* mined IDEAL_BLOCK_TIME apart, its utxos rebuilt
InitTall ==
  /\ blocks \in {ChainOf([i \in 1 .. n |-> (i - 1) * IDEAL_BLOCK_TIME]) : n \in 0 .. MaxHeight}
  /\ utxos = RebuiltUtxos(EmptyMap, blocks)
  /\ target = MIN_TARGET
  /\ mempool = <<>>
  /\ now = 0
  /\ last = Call("load", <<>>, "Ok")
  /\ overflow_checks \in BOOLEAN
  /\ NoNode
  /\ Idle

\* calculate_block_reward(); the reward returned is recorded in decimal
CalculateReward ==
  /\ LET r == CalculateBlockReward(Len(blocks), overflow_checks)
     IN last' = Call("calculate_block_reward", <<>>,
                     IF r.res = "Ok" THEN ToString(r.reward) ELSE r.res)
  /\ UNCHANGED <<blocks, utxos, target, mempool, now, overflow_checks, live, guard, nodes, replies, others>>

\* block.verify_coinbase_transaction(block_height(), utxos) for a block that
\* holds one coinbase of any value
VerifyCoinbase ==
  \E v \in 0 .. U64_MAX :
    /\ last' = Call("verify_coinbase_transaction", Coinbase(v, Len(blocks)),
                    VerifyCoinbaseTransaction(<<Coinbase(v, Len(blocks))>>, Len(blocks),
                                              utxos, overflow_checks))
    /\ UNCHANGED <<blocks, utxos, target, mempool, now, overflow_checks, live, guard, nodes, replies, others>>

NextTall == CalculateReward \/ VerifyCoinbase

\* the two reward computations applied at every chain length up to MaxHeight
SpecTall == InitTall /\ [][NextTall]_vars

(* ------------- a blockchain loaded with marks and a mempool ----------- *)
\* the utxos us with the reserved flag of every entry set to f
Marked(us, f) == [h \in DOMAIN us |-> <<f, us[h][2]>>]

\* the mempools a file can hold over utxos us: none, or one spend of a utxo
\* that arrived at time 0
LoadedMempools(us) ==
  {<<>>} \cup {<<<<0, tx>>>> : tx \in UNION {Spends(us, k, 5) : k \in DOMAIN us}}

\* Blockchain::load of a file that holds a one-block chain, its utxos with
\* their reserved flags, and (the field is read when present) a mempool
InitReserved ==
  /\ blocks = ChainOf(<<0>>)
  /\ utxos \in {Marked(RebuiltUtxos(EmptyMap, ChainOf(<<0>>)), f) : f \in BOOLEAN}
  /\ target = MIN_TARGET
  /\ mempool \in LoadedMempools(RebuiltUtxos(EmptyMap, ChainOf(<<0>>)))
  /\ now = 0
  /\ last = Call("load", <<>>, "Ok")
  /\ overflow_checks \in BOOLEAN
  /\ NoNode
  /\ Idle

\* the well-formed blocks, every offered transaction
NextReserved ==
  \/ AddBlock(FewBlocks)
  \/ TryAdjustTarget
  \/ RebuildUtxos
  \/ AddTransaction(TransactionChoices, MaxMempool)
  \/ CleanupMempool

\* a Blockchain loaded from a file with reserved utxos and a mempool, under
\* calls of its methods
SpecReserved == InitReserved /\ [][NextReserved]_vars

(* ------------------ blockchain.rs: Saveable --------------------------- *)
\* save writing every field, the mempool too
SavedWithMempool(bs, us, tg, mp) == [utxos |-> us, target |-> tg, blocks |-> bs, mempool |-> mp]

\* Saveable::save of the Blockchain, lines 346-349: the fields the derived
\* Serialize writes; mempool is skip_serializing (lines 25-26)
Saved(bs, us, tg, mp) == [utxos |-> us, target |-> tg, blocks |-> bs]

\* Saveable::load, lines 341-344: the derived Deserialize reads the fields and
\* gives mempool its default when the file has none (serde(default))
Loaded(f) ==
  [utxos |-> f.utxos, target |-> f.target, blocks |-> f.blocks,
   mempool |-> IF "mempool" \in DOMAIN f THEN f.mempool ELSE <<>>]

\* Saveable::save called on the Blockchain (as save.rs line 13 does): the
\* file holds what save writes
SaveToFile ==
  /\ file' = <<Saved(blocks, utxos, target, mempool)>>
  /\ last' = Call("save", <<>>, "Ok")
  /\ UNCHANGED <<blocks, utxos, target, mempool, now, overflow_checks, live, guard, nodes, replies>>
  /\ UNCHANGED <<permits, miner, running, block, pc, stream, buffer, usize_bits, core>>

\* Saveable::load of the bytes in the file: the Blockchain is the value read
LoadFromFile ==
  /\ file # <<>>
  /\ blocks' = Loaded(file[1]).blocks
  /\ utxos' = Loaded(file[1]).utxos
  /\ target' = Loaded(file[1]).target
  /\ mempool' = Loaded(file[1]).mempool
  /\ last' = Call("load", <<>>, "Ok")
  /\ UNCHANGED <<now, overflow_checks, live, guard, nodes, replies>>
  /\ UNCHANGED <<permits, file, miner, running, block, pc, stream, buffer, usize_bits, core>>

\* load.rs load_blockchain, lines 7-22: the Blockchain read from the file
\* replaces BLOCKCHAIN, then rebuild_utxos and try_adjust_target run on it
LoadBlockchain ==
  /\ file # <<>>
  /\ LET f == Loaded(file[1])
         adj == AdjustedTarget(f.blocks, f.target)
     IN /\ blocks' = f.blocks
        /\ utxos' = RebuiltUtxos(f.utxos, f.blocks)
        /\ target' = adj.target
        /\ mempool' = f.mempool
        /\ last' = Call("load_blockchain", <<>>, adj.res)
  /\ UNCHANGED <<now, overflow_checks, live, guard, nodes, replies>>
  /\ UNCHANGED <<permits, file, miner, running, block, pc, stream, buffer, usize_bits, core>>

\* the blocks offered in every variety, few transactions, the file
NextSaved ==
  \/ AddBlock(BlockChoices)
  \/ RebuildUtxos
  \/ AddTransaction(FewTransactions, 1)
  \/ SaveToFile
  \/ LoadFromFile
  \/ LoadBlockchain

\* a Blockchain loaded with reserved utxos and a mempool, under calls of its
\* methods, saved to a file and loaded from it
SpecSaved == InitReserved /\ [][NextSaved]_vars

(* ------------------ the node: handle_connection ----------------------- *)
\* a message of the protocol
Msg(kind, body) == [kind |-> kind, body |-> body]

\* the unique_id Uuid::new_v4() gives the coinbase of a template
TemplateIds == {90}

\* the first n elements of s
Take(s, n) == SubSeq(s, 1, IF Len(s) < n THEN Len(s) ELSE n)

\* the transactions of the mempool entries mp
Transactions(mp) == [i \in 1 .. Len(mp) |-> mp[i][2]]

\* the FetchTemplate arm, lines 167-233: the block built for pubkey at clock
\* reading t, or the error that ends the handler, or a panic of an overflow
TemplateFor(pubkey, t, id, bs, us, tg, mp, checks) ==
  LET selected == Take(Transactions(mp), BLOCK_TRANSACTION_CAP)
      transactions == <<Tx(<<>>, <<Output(0, id, pubkey)>>)>> \o selected
      prev == IF bs = <<>> THEN Zero ELSE BlockHash(Tip(bs))
      miner_fees == CalculatedMinerFees(transactions, Marked(us, FALSE), checks)
      reward == CalculateBlockReward(Len(bs), checks)
      updated_transactions ==
        <<Tx(<<>>, <<Output(Wrap(reward.reward + miner_fees.fee), id, pubkey)>>)>> \o selected
  IN IF miner_fees.res # "Ok" THEN [res |-> miner_fees.res, block |-> <<>>]
     ELSE IF reward.res # "Ok" THEN [res |-> "panic", block |-> <<>>]
     ELSE IF checks /\ Overflows(reward.reward + miner_fees.fee)
          THEN [res |-> "panic", block |-> <<>>]
     ELSE [res |-> "Ok",
           block |-> <<Block(Header(t, 0, prev, MerkleRoot(updated_transactions), tg),
                             updated_transactions)>>]

\* the FetchUTXOs arm, lines 74-79: the outputs of key with the flag false
UtxosOf(us, key) == {<<us[h][2], FALSE>> : h \in {x \in DOMAIN us : us[x][2].pubkey = key}}

\* the blocks a client or peer sends: on an empty chain a genesis block with
\* or without the zero hash; on a chain the block with the coinbase of the
\* reward, and for every utxo the blocks that burn it, stamped just after the
\* tip or six ideal spans after it
NodeBlocks ==
  LET h == Len(blocks)
      tip_time == IF blocks = <<>> THEN 0 ELSE Tip(blocks).header.timestamp
      plain == <<Coinbase(BlockReward(h), h)>>
      burns == {<<Coinbase(Wrap(BlockReward(h) + utxos[k][2].value), h),
                  Burn(utxos, k, 10 * h + 3)>> : k \in DOMAIN utxos}
      ideal == IDEAL_BLOCK_TIME * DIFFICULTY_UPDATE_INTERVAL
  IN IF blocks = <<>>
     THEN {Block(Header(0, 0, prev, RootOf(plain), target), plain) : prev \in {Zero, OtherHash}}
     ELSE {Block(Header(tip_time + 1, n, TipHash, RootOf(plain), target), plain) :
             n \in 0 .. MaxNonce}
          \cup {Block(Header(tip_time + g, n, TipHash, RootOf(txs), target), txs) :
                  g \in {1, 6 * ideal}, n \in 0 .. MaxNonce, txs \in burns}

\* the transactions a wallet or peer sends: for every utxo the spend that
\* pays one less than its value and the one whose outputs overflow u64, their
\* outputs under unique_ids of their own; and a transaction whose input is no
\* utxo
NodeTransactions ==
  UNION {{Tx(<<Input(k, Sign(k, utxos[k][2].pubkey))>>,
             <<Output(x, 100 + utxos[k][2].unique_id, 2)>>) :
            x \in {utxos[k][2].value - 1} \cap 0 .. U64_MAX}
         \cup {Inflation(utxos, k, 200 + 2 * utxos[k][2].unique_id)} : k \in DOMAIN utxos}
  \cup {Tx(<<Input(Zero, Sign(Zero, 1))>>, <<Output(0, 7, 2)>>)}

\* a node started on Blockchain::default(): every connection accepted, the
\* lock free, nothing sent
InitNode ==
  /\ blocks = <<>>
  /\ utxos = EmptyMap
  /\ target = MIN_TARGET
  /\ mempool = <<>>
  /\ now = 0
  /\ last = Call("default", <<>>, "Ok")
  /\ overflow_checks \in BOOLEAN
  /\ live = Conns
  /\ guard = Unlocked
  /\ nodes = [p \in Peers |-> <<>>]
  /\ replies = <<>>
  /\ Idle

\* the handler of connection c reads a message while no task holds the
\* write lock
Reads(c) == c \in live /\ guard = Unlocked

\* the blockchain after add_block(b) returned Ok or panicked in
\* try_adjust_target: lines 112-119
Appended(b) ==
  /\ mempool' = MempoolWithout(mempool, b)
  /\ blocks' = Append(blocks, b)
  /\ target' = AdjustedTarget(Append(blocks, b), target).target

\* NewBlock(block), lines 86-92: a rejection is logged; a panic ends the task
NodeNewBlock(c) ==
  /\ Reads(c)
  /\ Len(blocks) < MaxBlocks
  /\ \E b \in NodeBlocks :
       LET r == AddBlockCheck(blocks, utxos, b, overflow_checks)
           adj == AdjustedTarget(Append(blocks, b), target)
           res == IF r = "Ok" THEN adj.res ELSE r
       IN /\ IF r = "Ok" THEN Appended(b) ELSE UNCHANGED <<blocks, target, mempool>>
          /\ live' = IF res = "panic" THEN live \ {c} ELSE live
          /\ replies' = <<>>
          /\ last' = Call("NewBlock", [conn |-> c], res)
          /\ UNCHANGED <<utxos, now, overflow_checks, guard, nodes, others>>

\* NewTransaction(tx), lines 93-105: a rejection ends the handler
NodeNewTransaction(c) ==
  /\ Reads(c)
  /\ Len(mempool) <= BLOCK_TRANSACTION_CAP
  /\ \E tx \in NodeTransactions :
       LET r == AddTransactionToMempool(tx, utxos, mempool, now, overflow_checks)
       IN /\ utxos' = r.utxos
          /\ mempool' = r.mempool
          /\ live' = IF r.res = "Ok" THEN live ELSE live \ {c}
          /\ replies' = <<>>
          /\ last' = Call("NewTransaction", [conn |-> c], r.res)
          /\ UNCHANGED <<blocks, target, now, overflow_checks, guard, nodes, others>>

\* SubmitTemplate(block), lines 120-126: add_block under the write lock; an
\* error or a panic ends the handler and drops the lock, otherwise the
\* handler goes on to rebuild_utxos with the lock held
NodeSubmitTemplate(c) ==
  /\ Reads(c)
  /\ Len(blocks) < MaxBlocks
  /\ \E b \in NodeBlocks :
       LET r == AddBlockCheck(blocks, utxos, b, overflow_checks)
           adj == AdjustedTarget(Append(blocks, b), target)
           res == IF r = "Ok" THEN adj.res ELSE r
       IN /\ IF r = "Ok" THEN Appended(b) ELSE UNCHANGED <<blocks, target, mempool>>
          /\ live' = IF res = "Ok" THEN live ELSE live \ {c}
          /\ guard' = IF res = "Ok"
                      THEN [holder |-> c, next |-> "rebuild_utxos", msg |-> <<b>>]
                      ELSE Unlocked
          /\ replies' = <<>>
          /\ last' = Call("SubmitTemplate", [conn |-> c], res)
          /\ UNCHANGED <<utxos, now, overflow_checks, nodes, others>>

\* SubmitTemplate, line 127: rebuild_utxos, the lock still held
NodeRebuildUtxos ==
  /\ guard.next = "rebuild_utxos"
  /\ utxos' = RebuiltUtxos(utxos, blocks)
  /\ guard' = [guard EXCEPT !.next = "NewBlock"]
  /\ last' = Call("rebuild_utxos", <<>>, "Ok")
  /\ UNCHANGED <<blocks, target, mempool, now, overflow_checks, live, nodes, replies, others>>

\* SubmitTransaction(tx), lines 143-149: add_transaction_to_mempool under the
\* write lock; a rejection ends the handler, otherwise the handler goes on to
\* the broadcast with the lock held
NodeSubmitTransaction(c) ==
  /\ Reads(c)
  /\ Len(mempool) <= BLOCK_TRANSACTION_CAP
  /\ \E tx \in NodeTransactions :
       LET r == AddTransactionToMempool(tx, utxos, mempool, now, overflow_checks)
       IN /\ utxos' = r.utxos
          /\ mempool' = r.mempool
          /\ live' = IF r.res = "Ok" THEN live ELSE live \ {c}
          /\ guard' = IF r.res = "Ok"
                      THEN [holder |-> c, next |-> "NewTransaction", msg |-> <<tx>>]
                      ELSE Unlocked
          /\ replies' = <<>>
          /\ last' = Call("SubmitTransaction", [conn |-> c], r.res)
          /\ UNCHANGED <<blocks, target, now, overflow_checks, nodes, others>>

\* SubmitTemplate, lines 130-141, and SubmitTransaction, lines 152-164: the
\* message is written to the stream of every peer in NODES; the handler then
\* loops and its write guard is dropped
NodeBroadcast ==
  /\ guard.next \in {"NewBlock", "NewTransaction"}
  /\ nodes' = [p \in Peers |-> <<Msg(guard.next, guard.msg[1])>>]
  /\ guard' = Unlocked
  /\ last' = Call("broadcast", [conn |-> guard.holder, msg |-> guard.next], "Ok")
  /\ UNCHANGED <<blocks, utxos, target, mempool, now, overflow_checks, live, replies, others>>

\* FetchTemplate(pubkey), lines 167-239: the template is written to the
\* socket, or the handler ends without an answer
NodeFetchTemplate(c) ==
  /\ Reads(c)
  /\ \E pubkey \in Keys, id \in TemplateIds :
       LET r == TemplateFor(pubkey, now, id, blocks, utxos, target, mempool, overflow_checks)
       IN /\ live' = IF r.res = "Ok" THEN live ELSE live \ {c}
          /\ replies' = IF r.res = "Ok" THEN <<Msg("Template", r.block[1])>> ELSE <<>>
          /\ last' = Call("FetchTemplate", [conn |-> c, msg |-> pubkey], r.res)
          /\ UNCHANGED <<blocks, utxos, target, mempool, now, overflow_checks, guard, nodes, others>>

\* FetchUTXOs(key), lines 71-85
NodeFetchUTXOs(c) ==
  /\ Reads(c)
  /\ \E key \in Keys :
       /\ replies' = <<Msg("UTXOs", UtxosOf(utxos, key))>>
       /\ last' = Call("FetchUTXOs", [conn |-> c, msg |-> key], "Ok")
       /\ UNCHANGED <<blocks, utxos, target, mempool, now, overflow_checks, live, guard, nodes, others>>

\* the cleanup task, cleanup.rs lines 7-16: at a tick of its interval, when
\* the clock reads t, cleanup_mempool under the write lock
NodeCleanup ==
  /\ guard = Unlocked
  /\ \E t \in now .. MaxNow :
       /\ mempool' = Fresh(mempool, t)
       /\ utxos' = UnmarkAll(utxos, Aged(mempool, t))
       /\ now' = t
       /\ replies' = <<>>
       /\ last' = Call("cleanup_mempool", <<>>, "Ok")
       /\ UNCHANGED <<blocks, target, overflow_checks, live, guard, nodes, others>>

\* UTXOs, Template, Difference, TemplateValidity or NodeList, lines 29-35:
\* the handler returns
NodeUnexpected(c) ==
  /\ Reads(c)
  /\ \E kind \in {"UTXOs", "Template", "Difference", "TemplateValidity", "NodeList"} :
       /\ live' = live \ {c}
       /\ replies' = <<>>
       /\ last' = Call("Unexpected", [conn |-> c, msg |-> kind], "return")
       /\ UNCHANGED <<blocks, utxos, target, mempool, now, overflow_checks, guard, nodes, others>>

NextNode ==
  \/ \E c \in Conns : NodeUnexpected(c)
  \/ \E c \in Conns \ Clients : NodeNewBlock(c)
  \/ \E c \in Conns \ Clients : NodeNewTransaction(c)
  \/ \E c \in Clients : NodeSubmitTemplate(c)
  \/ NodeRebuildUtxos
  \/ \E c \in Clients : NodeSubmitTransaction(c)
  \/ NodeBroadcast
  \/ \E c \in Clients : NodeFetchTemplate(c)
  \/ \E c \in Clients : NodeFetchUTXOs(c)
  \/ NodeCleanup

\* a node started on Blockchain::default() that serves its connections
SpecNode == InitNode /\ [][NextNode]_vars

(* ------------- the node: starting from the nodes it is given ---------- *)
\* NODES with the stream of peer p holding what was written to it last
Connected(m, p, written) == [q \in DOMAIN m \cup {p} |-> IF q = p THEN written ELSE m[q]]

\* NODES after a new stream was connected to every peer of the list cs
RECURSIVE ConnectedAll(_, _)
ConnectedAll(m, cs) ==
  IF cs = <<>> THEN m ELSE ConnectedAll(Connected(m, Head(cs), <<>>), Tail(cs))

\* the orders in which the keys of a DashMap can be iterated
Orders(S) == {f \in [1 .. Cardinality(S) -> S] : \A i, j \in 1 .. Cardinality(S) : f[i] = f[j] => i = j}

\* messages a peer answers with that no exchange of a starting node expects
Strays == {Msg("TemplateValidity", TRUE), Msg("UTXOs", {})}

\* what a peer can answer to DiscoverNodes, AskDifference(0) and FetchBlock(i)
NodeLists == {Msg("NodeList", cs) : cs \in {<<>>} \cup {<<q>> : q \in Peers}}
Differences == {Msg("Difference", n) : n \in -1 .. MaxBlocks}
\* chains a peer can hold and serve block by block with FetchBlock: a genesis
\* block, and on it a block that burns the genesis coinbase, each one offered to
\* the peer in a SubmitTemplate
PeerChains ==
  LET first == <<Coinbase(BlockReward(0), 0)>>
      g == Block(Header(0, 0, Zero, RootOf(first), MIN_TARGET), first)
      us == RebuiltUtxos(EmptyMap, <<g>>)
      burns == {<<Coinbase(Wrap(BlockReward(1) + us[k][2].value), 1), Burn(us, k, 13)>> :
                  k \in DOMAIN us}
  IN {<<g, Block(Header(1, n, HeaderHash(g.header), RootOf(txs), MIN_TARGET), txs)>> :
        n \in 0 .. MaxNonce, txs \in burns}

\* the peer accepted every block of c with add_block, each followed by
\* rebuild_utxos as in the SubmitTemplate arm
PeerBuilt(c, checks) ==
  \A i \in 1 .. Len(c) :
    AddBlockCheck(SubSeq(c, 1, i - 1), RebuiltUtxos(EmptyMap, SubSeq(c, 1, i - 1)), c[i], checks) = "Ok"

NewBlocks ==
  {Msg("NewBlock", b) : b \in NodeBlocks \cup {c[pc.i + 1] : c \in {d \in PeerChains : pc.i < Len(d)}}}

\* where main is: the step, the peers still to visit, find_longest_chain_node's
\* longest_name and longest_count, download_blockchain's i
At(step, todo, longest_name, longest_count, i) ==
  [at |-> step, todo |-> todo, longest_name |-> longest_name,
   longest_count |-> longest_count, i |-> i]

\* main.rs lines 65-69: no blockchain file, and the nodes given on the command line
InitBoot ==
  /\ blocks = <<>>
  /\ utxos = EmptyMap
  /\ target = MIN_TARGET
  /\ mempool = <<>>
  /\ now = 0
  /\ last = Call("default", <<>>, "Ok")
  /\ overflow_checks \in BOOLEAN
  /\ live = {}
  /\ guard = Unlocked
  /\ nodes = [p \in {} |-> <<>>]
  /\ replies = <<>>
  /\ permits = MAX_CONNECTIONS
  /\ file = <<>>
  /\ miner = NoMiner
  /\ running = TRUE
  /\ block = <<>>
  /\ pc \in {At("populate", todo, 0, 0, 0) : todo \in UNION {Orders(S) : S \in SUBSET Peers \ {{}}}}
  /\ stream = <<>>
  /\ buffer = <<>>
  /\ usize_bits = U64_BITS
  /\ core = NoCore

\* connections.rs populate_connections, lines 10-31, for one node of the
\* list: DiscoverNodes is sent and the answer read; a NodeList has its nodes
\* connected, anything else is logged; the stream is put into NODES.  After
\* the last node find_longest_chain_node collects the keys of NODES.
BootPopulate ==
  /\ pc.at = "populate"
  /\ LET p == Head(pc.todo)
     IN \E m \in NodeLists \cup Differences \cup Strays :
          LET children == IF m.kind = "NodeList" THEN m.body ELSE <<>>
              inserted == Connected(ConnectedAll(nodes, children), p, <<Msg("DiscoverNodes", <<>>)>>)
          IN /\ nodes' = inserted
             /\ \E order \in Orders(DOMAIN inserted) :
                  pc' = IF Tail(pc.todo) = <<>> THEN At("ask", order, 0, 0, 0)
                        ELSE [pc EXCEPT !.todo = Tail(pc.todo)]
             /\ last' = Call("DiscoverNodes", [peer |-> p, msg |-> m.kind],
                             IF m.kind = "NodeList" THEN "Ok" ELSE "unexpected")
  /\ UNCHANGED <<blocks, utxos, target, mempool, now, overflow_checks, live, guard, replies>>
  /\ UNCHANGED <<permits, file, miner, running, block, stream, buffer, usize_bits, core>>

\* chain_node.rs find_longest_chain_node, lines 12-36, for one node of NODES:
\* AskDifference(0) is sent and the answer read; a Difference above
\* longest_count is kept, anything else is logged.  After the last node main
\* downloads from longest_name when longest_count is positive (lines 72-73).
BootAsk ==
  /\ pc.at = "ask"
  /\ LET p == Head(pc.todo)
     IN \E m \in Differences \cup NodeLists \cup Strays :
          LET longer == m.kind = "Difference" /\ m.body > pc.longest_count
              name == IF longer THEN p ELSE pc.longest_name
              count == IF longer THEN m.body ELSE pc.longest_count
          IN /\ nodes' = Connected(nodes, p, <<Msg("AskDifference", 0)>>)
             /\ pc' = IF Tail(pc.todo) # <<>> THEN At("ask", Tail(pc.todo), name, count, 0)
                      ELSE IF count > 0 THEN At("download", <<>>, name, count, 0)
                      ELSE At("serve", <<>>, name, count, 0)
             /\ last' = Call("AskDifference", [peer |-> p, msg |-> m.kind],
                             IF m.kind = "Difference" THEN "Ok" ELSE "unexpected")
  /\ UNCHANGED <<blocks, utxos, target, mempool, now, overflow_checks, live, guard, replies>>
  /\ UNCHANGED <<permits, file, miner, running, block, stream, buffer, usize_bits, core>>

\* download.rs download_blockchain, lines 8-21, for one height: FetchBlock(i)
\* is sent to longest_name and the answer read; a NewBlock is added to the
\* chain, and main ends on its error; anything else is logged
BootDownload ==
  /\ pc.at = "download"
  /\ pc.i < pc.longest_count
  /\ LET p == pc.longest_name
     IN \E m \in NewBlocks \cup Differences \cup Strays :
          LET r == IF m.kind = "NewBlock"
                   THEN AddBlockCheck(blocks, utxos, m.body, overflow_checks) ELSE "unexpected"
              adj == AdjustedTarget(Append(blocks, m.body), target)
              res == IF r = "Ok" THEN adj.res ELSE r
          IN /\ IF r = "Ok" THEN Appended(m.body) ELSE UNCHANGED <<blocks, target, mempool>>
             /\ nodes' = Connected(nodes, p, <<Msg("FetchBlock", pc.i)>>)
             /\ pc' = IF res \in {"Ok", "unexpected"} THEN [pc EXCEPT !.i = pc.i + 1]
                      ELSE [pc EXCEPT !.at = "exit"]
             /\ last' = Call("FetchBlock", [peer |-> p, msg |-> m.kind, body |-> m.body], res)
  /\ UNCHANGED <<utxos, now, overflow_checks, live, guard, replies>>
  /\ UNCHANGED <<permits, file, miner, running, block, stream, buffer, usize_bits, core>>

\* main.rs lines 74-84: after the download rebuild_utxos and try_adjust_target
BootRebuild ==
  /\ pc.at = "download"
  /\ pc.i = pc.longest_count
  /\ LET adj == AdjustedTarget(blocks, target)
     IN /\ utxos' = RebuiltUtxos(utxos, blocks)
        /\ target' = adj.target
        /\ pc' = [pc EXCEPT !.at = IF adj.res = "Ok" THEN "serve" ELSE "exit"]
        /\ last' = Call("try_adjust_target", <<>>, adj.res)
  /\ UNCHANGED <<blocks, mempool, now, overflow_checks, live, guard, nodes, replies>>
  /\ UNCHANGED <<permits, file, miner, running, block, stream, buffer, usize_bits, core>>

NextBoot ==
  \/ BootPopulate
  \/ BootAsk
  \/ BootDownload
  \/ BootRebuild

\* a node started without a blockchain file on a list of nodes
SpecBoot == InitBoot /\ [][NextBoot]_vars

(* ----------------- block_header.rs: BlockHeader::mine ----------------- *)
\* the targets of the headers given to a mining loop: under the Merkle root of
\* a coinbase of the initial reward and timestamp 0 no nonce meets the first,
\* only the last nonce meets the second, nonce 0 meets the third and nonce 1
\* the fourth
MinedTargets == {0, 10, 34, MIN_TARGET}

\* lines 50-55 with the nonce at u64::MAX, the timestamp left as it is
AdvanceKeepingTime(h, t) ==
  IF h.nonce < U64_MAX THEN [h EXCEPT !.nonce = h.nonce + 1] ELSE [h EXCEPT !.nonce = 0]

\* lines 50-55: the next nonce, or nonce 0 and the timestamp Utc::now() = t
\* when checked_add overflows
Advance(h, t) ==
  IF h.nonce < U64_MAX THEN [h EXCEPT !.nonce = h.nonce + 1]
  ELSE [h EXCEPT !.nonce = 0, !.timestamp = t]

RECURSIVE MineLoop(_, _, _)
\* lines 49-61: the loop with k steps left
MineLoop(h, k, t) ==
  IF k = 0 THEN [found |-> FALSE, header |-> h]
  ELSE LET next == Advance(h, t)
       IN IF MatchesTarget(next, next.target) THEN [found |-> TRUE, header |-> next]
          ELSE MineLoop(next, k - 1, t)

\* BlockHeader::mine(steps) with the clock reading t: the value returned and
\* the header as the call leaves it
Mine(h, steps, t) ==
  IF MatchesTarget(h, h.target) THEN [found |-> TRUE, header |-> h]
  ELSE MineLoop(h, steps, t)

\* the block b with header h
WithHeader(b, h) == [b EXCEPT !.header = h]

\* the steps given on the command line of the offline miner
StepChoices == {0, 1, 2, U64_MAX}

\* offline_miner.rs lines 28-32: the block loaded from the file, any nonce in
\* its header, and the steps
InitMine ==
  /\ blocks = <<>>
  /\ utxos = EmptyMap
  /\ target = MIN_TARGET
  /\ mempool = <<>>
  /\ now = 0
  /\ last = Call("load", <<>>, "Ok")
  /\ overflow_checks \in BOOLEAN
  /\ NoNode
  /\ permits = MAX_CONNECTIONS
  /\ file = <<>>
  /\ miner = NoMiner
  /\ running = TRUE
  /\ block \in {<<Block(Header(0, n, Zero, RootOf(<<Coinbase(INITIAL_REWARD, 0)>>), tg),
                          <<Coinbase(INITIAL_REWARD, 0)>>)>> :
                   n \in 0 .. U64_MAX, tg \in MinedTargets}
  /\ pc \in {[at |-> "mine", steps |-> k] : k \in StepChoices}
  /\ stream = <<>>
  /\ buffer = <<>>
  /\ usize_bits = U64_BITS
  /\ core = NoCore

\* offline_miner.rs lines 34-36: one call of mine(steps) in the while loop,
\* with the clock reading t at the call
OfflineMine ==
  /\ pc.at = "mine"
  /\ \E t \in now .. MaxNow :
       LET r == Mine(block[1].header, pc.steps, t)
       IN /\ block' = <<WithHeader(block[1], r.header)>>
          /\ pc' = [pc EXCEPT !.at = IF r.found THEN "done" ELSE "mine"]
          /\ now' = t
          /\ last' = Call("mine", [header |-> block[1].header, steps |-> pc.steps],
                          IF r.found THEN "true" ELSE "false")
  /\ UNCHANGED <<blocks, utxos, target, mempool, overflow_checks, live, guard, nodes, replies>>
  /\ UNCHANGED <<permits, file, miner, running, stream, buffer, usize_bits, core>>

NextMine == OfflineMine

\* the offline miner on a block loaded from a file
SpecMine == InitMine /\ [][NextMine]_vars

(* ------------------ main.rs: the accept loop -------------------------- *)
\* try_acquire_owned on a semaphore that always has a permit to give
TryAcquireAlways(p) == [ok |-> TRUE, permits |-> IF p > 0 THEN p - 1 ELSE 0]

\* Semaphore::try_acquire_owned, main.rs line 128, with p permits left: a
\* permit is taken if there is one
TryAcquire(p) == [ok |-> p > 0, permits |-> IF p > 0 THEN p - 1 ELSE p]

(* ------------------ message.rs: Message::receive ---------------------- *)
\* message.rs line 69, scaled
MAX_MESSAGE_SIZE == 2
\* message.rs line 72: the bytes of the length prefix (8) and the bits of a
\* byte (8), scaled so that the prefix is a u64 of U64_BITS bits
LEN_BYTES == 3
BYTE_BITS == 1
\* message.rs line 74: the bits of usize on a 32-bit target, scaled; on a
\* 64-bit target usize has U64_BITS bits
U32_BITS == 2

RECURSIVE FromBeBytes(_)
\* u64::from_be_bytes
FromBeBytes(bytes) ==
  IF bytes = <<>> THEN 0
  ELSE Head(bytes) * 2 ^ (BYTE_BITS * (Len(bytes) - 1)) + FromBeBytes(Tail(bytes))

\* Message::receive, lines 71-84, and receive_async, lines 98-113, after the
\* prefix was read, with `available` bytes of payload on the stream and usize
\* of `bits` bits: the result, the buffer allocated (its length, or none) and
\* the bytes of payload read.  `decodes` says whether the payload is the
\* encoding of a Message.
Receive(prefix, available, decodes, bits) ==
  LET len == FromBeBytes(prefix) % (2 ^ bits)
  IN IF len > MAX_MESSAGE_SIZE THEN [res |-> "InvalidData", buffer |-> <<>>, read |-> 0]
     ELSE IF available < len THEN [res |-> "UnexpectedEof", buffer |-> <<len>>, read |-> available]
     ELSE [res |-> IF decodes THEN "Ok" ELSE "Decode", buffer |-> <<len>>, read |-> len]

(* ------------------ main.rs: the accept loop -------------------------- *)
\* main.rs lines 105-106: the node as the accept loop starts, built for a
\* target with usize of 32 or of 64 bits
InitAccept ==
  /\ blocks = <<>>
  /\ utxos = EmptyMap
  /\ target = MIN_TARGET
  /\ mempool = <<>>
  /\ now = 0
  /\ last = Call("listen", <<>>, "Ok")
  /\ overflow_checks = TRUE
  /\ NoNode
  /\ permits = MAX_CONNECTIONS
  /\ file = <<>>
  /\ miner = NoMiner
  /\ running = TRUE
  /\ block = <<>>
  /\ pc = "serve"
  /\ stream = <<>>
  /\ buffer = <<>>
  /\ usize_bits \in {U32_BITS, U64_BITS}
  /\ core = NoCore

\* connection.rs lines 11-26: the handler of socket c reads a frame with
\* receive_async; an error ends the handler, whose permit is dropped
HandlerReceive(c) ==
  /\ c \in live
  /\ \E prefix \in [1 .. LEN_BYTES -> 0 .. 2 ^ BYTE_BITS - 1], available \in 0 .. MAX_MESSAGE_SIZE,
        decodes \in BOOLEAN :
       LET r == Receive(prefix, available, decodes, usize_bits)
       IN /\ buffer' = r.buffer
          /\ stream' = <<available - r.read>>
          /\ live' = IF r.res = "Ok" THEN live ELSE live \ {c}
          /\ permits' = IF r.res = "Ok" THEN permits ELSE permits + 1
          /\ last' = Call("receive_async", [conn |-> c, prefix |-> prefix, payload |-> available], r.res)
  /\ UNCHANGED <<blocks, utxos, target, mempool, now, overflow_checks, guard, nodes, replies>>
  /\ UNCHANGED <<file, miner, running, block, pc, usize_bits, core>>

\* main.rs lines 122-140: socket c is accepted; with a permit a task is
\* spawned that holds the permit and runs handle_connection, without one the
\* socket is dropped
Accept(c) ==
  /\ c \notin live
  /\ LET r == TryAcquire(permits)
     IN /\ permits' = r.permits
        /\ live' = IF r.ok THEN live \cup {c} ELSE live
        /\ last' = Call("accept", [conn |-> c], IF r.ok THEN "spawned" ELSE "rejected")
  /\ UNCHANGED <<blocks, utxos, target, mempool, now, overflow_checks, guard, nodes, replies>>
  /\ UNCHANGED <<file, miner, running, block, pc, stream, buffer, usize_bits, core>>

\* main.rs lines 136-140: handle_connection of socket c returns for another
\* reason than a failed receive, or panics;
\* the task ends and its _permit is dropped
Finish(c) ==
  /\ c \in live
  /\ live' = live \ {c}
  /\ permits' = permits + 1
  /\ \E res \in {"return", "panic"} : last' = Call("handle_connection", [conn |-> c], res)
  /\ UNCHANGED <<blocks, utxos, target, mempool, now, overflow_checks, guard, nodes, replies>>
  /\ UNCHANGED <<file, miner, running, block, pc, stream, buffer, usize_bits, core>>

NextAccept ==
  \/ \E c \in 1 .. MaxSockets : Accept(c)
  \/ \E c \in 1 .. MaxSockets : HandlerReceive(c)
  \/ \E c \in 1 .. MaxSockets : Finish(c)

\* the accept loop of the node and the handler tasks it spawns
SpecAccept == InitAccept /\ [][NextAccept]_vars

(* ------------------------ miner.rs: the Miner ------------------------- *)
\* miner.rs line 65: the steps of one mine call, scaled
MINE_STEPS == 2

\* the templates a node answers FetchTemplate with: nonce 0, a coinbase, and
\* a target that nonce 7 alone meets (10) or that nonce 0 meets (34)
MinerTemplates ==
  {Block(Header(0, 0, Zero, RootOf(<<Coinbase(INITIAL_REWARD, 0)>>), tg),
         <<Coinbase(INITIAL_REWARD, 0)>>) : tg \in {10, 34}}

\* what Message::receive_async gives the miner: a Template, a
\* TemplateValidity, or an error ("closed") of a stream that ended
Answers ==
  {Msg("Template", t) : t \in MinerTemplates}
    \cup {Msg("TemplateValidity", v) : v \in BOOLEAN}
    \cup {Msg("closed", <<>>)}

\* where the control task and the hashing worker are, and how many
\* iterations each has begun since the running flag was cleared
Positions(control, worker, after) == [control |-> control, worker |-> worker, after |-> after]

\* one more iteration begun by task who, counted once running is false
Begun(who) ==
  IF running THEN pc.after
  ELSE [pc.after EXCEPT ![who] = IF pc.after[who] < 2 THEN pc.after[who] + 1 ELSE 2]

\* Miner::new, lines 26-37, and online_miner.rs line 75
InitMiner ==
  /\ blocks = <<>>
  /\ utxos = EmptyMap
  /\ target = MIN_TARGET
  /\ mempool = <<>>
  /\ now = 0
  /\ last = Call("new", <<>>, "Ok")
  /\ overflow_checks \in BOOLEAN
  /\ NoNode
  /\ permits = MAX_CONNECTIONS
  /\ file = <<>>
  /\ miner = [NoMiner EXCEPT !.stream = "open"]
  /\ running = TRUE
  /\ block = <<>>
  /\ pc = Positions("select", "idle", [control |-> 0, worker |-> 0])
  /\ stream = <<>>
  /\ buffer = <<>>
  /\ usize_bits = U64_BITS
  /\ core = NoCore

\* the process runs: Miner::run has not returned an error (online_miner.rs
\* lines 85-88 exit then)
Runs == pc.control # "exit"

\* fetch_and_validate_template at a tick with mining false, and
\* fetch_template lines 86-90: FetchTemplate is sent
MinerFetch ==
  /\ pc.control = "select"
  /\ ~miner.mining
  /\ pc' = Positions("await_template", pc.worker, Begun("control"))
  /\ last' = Call("fetch_template", [msg |-> "FetchTemplate"], "sent")
  /\ UNCHANGED <<blocks, utxos, target, mempool, now, overflow_checks, live, guard, nodes, replies>>
  /\ UNCHANGED <<permits, file, miner, running, block, stream, buffer, usize_bits, core>>

\* fetch_template lines 91-106: the answer is read; a Template is stored and
\* mining set, anything else is an error that ends run
MinerTemplate ==
  /\ pc.control = "await_template"
  /\ \E m \in Answers :
       /\ miner' = IF m.kind = "Template"
                   THEN [miner EXCEPT !.current_template = <<m.body>>, !.mining = TRUE]
                   ELSE [miner EXCEPT !.stream = "closed"]
       /\ pc' = [pc EXCEPT !.control = IF m.kind = "Template" THEN "select" ELSE "exit"]
       /\ last' = Call("fetch_template", [msg |-> m.kind],
                       IF m.kind = "Template" THEN "Ok"
                       ELSE IF m.kind = "closed" THEN "Err" ELSE "UnexpectedMessage")
  /\ UNCHANGED <<blocks, utxos, target, mempool, now, overflow_checks, live, guard, nodes, replies>>
  /\ UNCHANGED <<permits, file, running, block, stream, buffer, usize_bits, core>>

\* fetch_and_validate_template at a tick with mining true, and
\* validate_template lines 111-119: ValidateTemplate(current) is sent
MinerValidate ==
  /\ pc.control = "select"
  /\ miner.mining
  /\ miner.current_template # <<>>
  /\ pc' = Positions("await_validity", pc.worker, Begun("control"))
  /\ last' = Call("validate_template", [msg |-> "ValidateTemplate"], "sent")
  /\ UNCHANGED <<blocks, utxos, target, mempool, now, overflow_checks, live, guard, nodes, replies>>
  /\ UNCHANGED <<permits, file, miner, running, block, stream, buffer, usize_bits, core>>

\* validate_template lines 120-136: the answer is read; TemplateValidity(false)
\* clears mining, anything but a TemplateValidity is an error that ends run
MinerValidity ==
  /\ pc.control = "await_validity"
  /\ \E m \in Answers :
       /\ miner' = IF m.kind = "TemplateValidity"
                   THEN [miner EXCEPT !.mining = miner.mining /\ m.body]
                   ELSE [miner EXCEPT !.stream = "closed"]
       /\ pc' = [pc EXCEPT !.control = IF m.kind = "TemplateValidity" THEN "select" ELSE "exit"]
       /\ last' = Call("validate_template", [msg |-> m.kind],
                       IF m.kind = "TemplateValidity" THEN "Ok"
                       ELSE IF m.kind = "closed" THEN "Err" ELSE "UnexpectedMessage")
  /\ UNCHANGED <<blocks, utxos, target, mempool, now, overflow_checks, live, guard, nodes, replies>>
  /\ UNCHANGED <<permits, file, running, block, stream, buffer, usize_bits, core>>

\* submit_block with the mining flag left as it is
SubmittedKeepMining(m, sent) ==
  IF sent THEN [m EXCEPT !.mined_block = Tail(m.mined_block)]
  ELSE [m EXCEPT !.mined_block = Tail(m.mined_block), !.stream = "closed"]

\* run lines 48-50 and submit_block lines 142-149: the Miner after the block
\* at the head of the channel was received and SubmitTemplate was sent, or
\* could not be sent
Submitted(m, sent) ==
  IF sent THEN [m EXCEPT !.mined_block = Tail(m.mined_block), !.mining = FALSE]
  ELSE [m EXCEPT !.mined_block = Tail(m.mined_block), !.stream = "closed"]

\* run lines 48-50: a block is received from the mined-block channel and
\* submit_block sends it; an error of the send ends run
MinerSubmit ==
  /\ pc.control = "select"
  /\ miner.mined_block # <<>>
  /\ \E sent \in BOOLEAN :
       /\ miner' = Submitted(miner, sent)
       /\ pc' = Positions(IF sent THEN "select" ELSE "exit", pc.worker, Begun("control"))
       /\ last' = Call("submit_block",
                       [msg |-> "SubmitTemplate", block |-> Head(miner.mined_block)],
                       IF sent THEN "Ok" ELSE "Err")
  /\ UNCHANGED <<blocks, utxos, target, mempool, now, overflow_checks, live, guard, nodes, replies>>
  /\ UNCHANGED <<permits, file, running, block, stream, buffer, usize_bits, core>>

\* spawn_mining_thread lines 61-65: with mining true and a template stored,
\* the worker clones the template and calls mine(2_000_000) on the clone
WorkerMine ==
  /\ Runs
  /\ pc.worker = "idle"
  /\ miner.mining
  /\ miner.current_template # <<>>
  /\ LET template == miner.current_template[1]
         r == Mine(template.header, MINE_STEPS, now)
     IN /\ block' = <<WithHeader(template, r.header)>>
        /\ pc' = Positions(pc.control, IF r.found THEN "send" ELSE "idle", Begun("worker"))
        /\ last' = Call("mine", [header |-> template.header, steps |-> MINE_STEPS],
                        IF r.found THEN "true" ELSE "false")
  /\ UNCHANGED <<blocks, utxos, target, mempool, now, overflow_checks, live, guard, nodes, replies>>
  /\ UNCHANGED <<permits, file, miner, running, stream, buffer, usize_bits, core>>

\* spawn_mining_thread line 67: the solved block is posted to the channel
WorkerSend ==
  /\ Runs
  /\ pc.worker = "send"
  /\ Len(miner.mined_block) < MaxChannel
  /\ miner' = [miner EXCEPT !.mined_block = Append(miner.mined_block, block[1])]
  /\ pc' = [pc EXCEPT !.worker = "store"]
  /\ last' = Call("send", [block |-> block[1]], "Ok")
  /\ UNCHANGED <<blocks, utxos, target, mempool, now, overflow_checks, live, guard, nodes, replies>>
  /\ UNCHANGED <<permits, file, running, block, stream, buffer, usize_bits, core>>

\* spawn_mining_thread line 68: mining is cleared
WorkerStore ==
  /\ Runs
  /\ pc.worker = "store"
  /\ miner' = [miner EXCEPT !.mining = FALSE]
  /\ pc' = [pc EXCEPT !.worker = "idle"]
  /\ last' = Call("store", <<>>, "Ok")
  /\ UNCHANGED <<blocks, utxos, target, mempool, now, overflow_checks, live, guard, nodes, replies>>
  /\ UNCHANGED <<permits, file, running, block, stream, buffer, usize_bits, core>>

\* online_miner.rs lines 79-83: Ctrl+C clears the running flag
Interrupt ==
  /\ Runs
  /\ running
  /\ running' = FALSE
  /\ last' = Call("ctrl_c", <<>>, "Ok")
  /\ UNCHANGED <<blocks, utxos, target, mempool, now, overflow_checks, live, guard, nodes, replies>>
  /\ UNCHANGED <<permits, file, miner, block, pc, stream, buffer, usize_bits, core>>

NextMiner ==
  \/ MinerFetch
  \/ MinerTemplate
  \/ MinerValidate
  \/ MinerValidity
  \/ MinerSubmit
  \/ WorkerMine
  \/ WorkerSend
  \/ WorkerStore
  \/ Interrupt

\* the online miner.  The worker is a thread of its own, so each of its steps
\* happens if it stays possible; the node or the stream answers every
\* request; select! polls its branches in random order, so a block waiting in
\* the channel is received at one of the selects.
SpecMiner ==
  /\ InitMiner
  /\ [][NextMiner]_vars
  /\ WF_vars(WorkerMine)
  /\ WF_vars(WorkerSend)
  /\ WF_vars(WorkerStore)
  /\ WF_vars(MinerTemplate)
  /\ WF_vars(MinerValidity)
  /\ WF_vars(MinerFetch \/ MinerValidate \/ MinerSubmit)
  /\ SF_vars(MinerSubmit)


(* ============================ the claims ============================== *)
\* the hashes referenced by the inputs of tx
InputHashes(tx) == {tx.inputs[i].prev_transaction_output_hash : i \in 1 .. Len(tx.inputs)}

\* a step of the blockchain that is a call of add_block on a non-empty chain
AddBlockOnChain == last'.op = "add_block" /\ blocks # <<>>

\* block b links to the tip of bs and its header hash is at most its target
LinkedAndMined(bs, b) ==
  /\ b.header.prev_block_hash = HeaderHash(Tip(bs).header)
  /\ MatchesTarget(b.header, b.header.target)

(* ------------------------------- C1 ----------------------------------- *)
\* tx spends existing utxos with valid signatures, no hash twice, and its
\* input value is at least its output value
SoundSpend(tx, us) ==
  /\ InputHashes(tx) \subseteq DOMAIN us
  /\ Cardinality(InputHashes(tx)) = Len(tx.inputs)
  /\ \A i \in 1 .. Len(tx.inputs) :
       Verify(tx.inputs[i].signature, tx.inputs[i].prev_transaction_output_hash,
              us[tx.inputs[i].prev_transaction_output_hash][2].pubkey)
  /\ InputSum(tx.inputs, us) >= SumSeq(Values(tx.outputs))

\* the exact fees of the sound spends txs
ExactFees(txs, us) ==
  SumSeq([i \in 1 .. Len(txs) |-> InputSum(txs[i].inputs, us) - SumSeq(Values(txs[i].outputs))])

\* block b is valid on the non-empty chain bs over utxos us: linkage, proof of
\* work, Merkle root, later timestamp, a coinbase of reward plus fees followed
\* by sound spends of distinct utxos
ValidBlock(bs, us, b) ==
  LET txs == b.transactions IN
  /\ LinkedAndMined(bs, b)
  /\ txs # <<>>
  /\ b.header.merkle_root = MerkleRoot(txs)
  /\ b.header.timestamp > Tip(bs).header.timestamp
  /\ txs[1].inputs = <<>>
  /\ txs[1].outputs # <<>>
  /\ \A i \in 2 .. Len(txs) : SoundSpend(txs[i], us)
  /\ \A i, j \in 2 .. Len(txs) : i # j => InputHashes(txs[i]) \cap InputHashes(txs[j]) = {}
  /\ SumSeq(Values(txs[1].outputs)) = BlockReward(Len(bs)) + ExactFees(Tail(txs), us)

\* C1: on a chain with at least one block, add_block of a valid block (linked
\* to the tip's header hash, header hash at most its target, matching Merkle
\* root, strictly later timestamp, a coinbase paying reward plus fees followed
\* by sound spends) returns Ok and the height grows by exactly one.
C1_ValidBlockAccepted ==
  [][(AddBlockOnChain /\ ValidBlock(blocks, utxos, last'.arg))
       => (last'.res = "Ok" /\ Len(blocks') = Len(blocks) + 1)]_vars

(* ------------------------------- C2 ----------------------------------- *)
\* the transactions of the chain
ChainTxs == UNION {{blocks[i].transactions[j] : j \in 1 .. Len(blocks[i].transactions)} :
                     i \in 1 .. Len(blocks)}

\* the hashes referenced by the inputs of the chain
ChainInputs == UNION {InputHashes(tx) : tx \in ChainTxs}

\* the outputs produced in the chain that no input of the chain references,
\* whether by the output's own hash or by the hash of its transaction
UnspentOutputs ==
  UNION {{tx.outputs[k] : k \in {n \in 1 .. Len(tx.outputs) :
                                   /\ OutputHash(tx.outputs[n]) \notin ChainInputs
                                   /\ TxHash(tx) \notin ChainInputs}} :
           tx \in ChainTxs}

\* C2: right after rebuild_utxos the outputs held in utxos are exactly the
\* outputs produced by the transactions of blocks less those an input of
\* blocks references: every unspent output of a multi-output transaction is
\* present and no spent output is.
C2_UtxosAreUnspentOutputs ==
  last.op = "rebuild_utxos" => {utxos[h][2] : h \in DOMAIN utxos} = UnspentOutputs

(* ------------------------------- C3 ----------------------------------- *)
\* C3 as stated: every block of the chain has a header hash at most its target.
C3_EveryBlockMeetsTarget ==
  \A i \in 1 .. Len(blocks) : MatchesTarget(blocks[i].header, blocks[i].header.target)

\* C3, amended: every block that add_block accepted onto a non-empty chain has
\* a header hash at most its target; the first block is exempt.
C3_LaterBlocksMeetTarget ==
  \A i \in 2 .. Len(blocks) : MatchesTarget(blocks[i].header, blocks[i].header.target)

\* a chain whose first block misses its target and whose second meets it
C3_Witness ==
  /\ Len(blocks) >= 2
  /\ ~MatchesTarget(blocks[1].header, blocks[1].header.target)
  /\ last.op = "add_block" /\ last.arg = blocks[2]

(* ------------------------------- C4 ----------------------------------- *)
\* C4: every step leaves blocks as it is or appends one block whose
\* prev_block_hash is the tip's header hash (zero on an empty chain), so an
\* earlier chain is a prefix of every later one and a block that does not
\* link to the tip is never appended.
C4_AppendOnlyAtTip ==
  [][\/ blocks' = blocks
     \/ /\ Len(blocks') = Len(blocks) + 1
        /\ SubSeq(blocks', 1, Len(blocks)) = blocks
        /\ blocks'[Len(blocks')].header.prev_block_hash = TipHash]_vars

\* a block that does not link to the tip was offered on a non-empty chain and
\* rejected
C4_Witness ==
  /\ blocks # <<>>
  /\ last.op = "add_block"
  /\ last.arg.header.prev_block_hash # TipHash
  /\ last.res = "InvalidBlock"

(* ------------------------------- C5 ----------------------------------- *)
\* C5: no two transactions of the mempool have an input that references the
\* same utxo hash.
C5_NoSharedInput ==
  \A i, j \in 1 .. Len(mempool) :
    i # j => InputHashes(mempool[i][2]) \cap InputHashes(mempool[j][2]) = {}

(* ------------------------------- C6 ----------------------------------- *)
\* C6: every input of every mempool transaction references a key of utxos and
\* carries a signature that verifies against the referenced output's pubkey.
C6_MempoolInputsSpendable ==
  \A i \in 1 .. Len(mempool) :
    \A n \in 1 .. Len(mempool[i][2].inputs) :
      LET input == mempool[i][2].inputs[n]
          h == input.prev_transaction_output_hash
      IN h \in DOMAIN utxos /\ Verify(input.signature, h, utxos[h][2].pubkey)

(* ------------------------------- C7 ----------------------------------- *)
\* C7: the target never exceeds MIN_TARGET.
C7_TargetAtMostMin == target <= MIN_TARGET

\* try_adjust_target ran at a multiple of the interval over blocks that took
\* longer than the ideal time, and the target stands at MIN_TARGET
C7_Witness ==
  /\ last.op = "try_adjust_target" /\ last.res = "Ok"
  /\ blocks # <<>>
  /\ Len(blocks) % DIFFICULTY_UPDATE_INTERVAL = 0
  /\ Tip(blocks).header.timestamp
       - blocks[Len(blocks) - DIFFICULTY_UPDATE_INTERVAL + 1].header.timestamp
       > IDEAL_BLOCK_TIME * DIFFICULTY_UPDATE_INTERVAL
  /\ target = MIN_TARGET

(* ------------------------------- C8 ----------------------------------- *)
\* result r is the error kind of the first check of add_block that block b
\* fails on the non-empty chain bs, in the order linkage, proof of work,
\* Merkle root, timestamp, verify_transactions; a block without transactions
\* that passes linkage and proof of work gets one of the later error kinds
FirstFailure(bs, us, b, r) ==
  IF b.header.prev_block_hash # HeaderHash(Tip(bs).header) THEN r = "InvalidBlock"
  ELSE IF ~MatchesTarget(b.header, b.header.target) THEN r = "InvalidBlock"
  ELSE IF b.transactions = <<>>
       THEN r \in {"InvalidMerkleRoot", "InvalidBlockHeader", "InvalidTransaction"}
  ELSE IF b.header.merkle_root # MerkleRoot(b.transactions) THEN r = "InvalidMerkleRoot"
  ELSE IF b.header.timestamp <= Tip(bs).header.timestamp THEN r = "InvalidBlockHeader"
  ELSE LET v == VerifyTransactions(b.transactions, Len(bs), us, overflow_checks)
       IN r = v \/ v = "Ok"

\* C8: on a non-empty chain add_block returns the error kind of the first
\* check that fails, in the order linkage, proof of work, Merkle root,
\* timestamp, transaction verification.
C8_FirstFailingCheck ==
  [][AddBlockOnChain => FirstFailure(blocks, utxos, last'.arg, last'.res)]_vars

(* ------------------------------- C9 ----------------------------------- *)
\* C9: on a non-empty chain add_block of a block without transactions whose
\* linkage and proof of work are correct returns InvalidTransaction and does
\* not abort, and blocks, mempool, utxos and target are unchanged.
C9_EmptyBlockRejected ==
  [][(AddBlockOnChain /\ last'.arg.transactions = <<>> /\ LinkedAndMined(blocks, last'.arg))
       => (last'.res = "InvalidTransaction"
           /\ UNCHANGED <<blocks, mempool, utxos, target>>)]_vars

(* ------------------------------- C10 ---------------------------------- *)
\* C10: on an empty chain add_block accepts the block exactly when its
\* prev_block_hash is zero, whatever its proof of work, Merkle root,
\* timestamp and transactions, and the height becomes 1; otherwise it returns
\* InvalidBlock and the chain stays empty.
C10_GenesisByZeroHash ==
  [][(last'.op = "add_block" /\ blocks = <<>>)
       => IF last'.arg.header.prev_block_hash = Zero
          THEN last'.res = "Ok" /\ blocks' = <<last'.arg>>
          ELSE last'.res = "InvalidBlock" /\ blocks' = <<>>]_vars

\* a first block was accepted that misses its target, carries a foreign
\* Merkle root and a coinbase of more than the reward
C10_Witness ==
  /\ Len(blocks) = 1
  /\ last.op = "add_block" /\ last.res = "Ok" /\ last.arg = blocks[1]
  /\ ~MatchesTarget(blocks[1].header, blocks[1].header.target)
  /\ blocks[1].transactions # <<>>
  /\ blocks[1].header.merkle_root # MerkleRoot(blocks[1].transactions)
  /\ SumSeq(Values(blocks[1].transactions[1].outputs)) > BlockReward(0)

(* ------------------------------- C11 ---------------------------------- *)
\* a step that is a call of add_transaction_to_mempool which admits its
\* argument
Admits == last'.op = "add_transaction_to_mempool" /\ last'.res = "Ok"

\* the mempool entries whose transaction spends a reserved utxo that tx
\* spends too
ReservedRivals(tx) ==
  {i \in 1 .. Len(mempool) :
     \E h \in InputHashes(mempool[i][2]) \cap InputHashes(tx) :
       h \in DOMAIN utxos /\ utxos[h][1]}

\* C11: when a mempool transaction A spends a reserved utxo u, admitting a
\* transaction B that also spends u leaves exactly B in the mempool, and every
\* utxo that A consumed has reserved = false.
C11_RivalEvicted ==
  [][(Admits /\ ReservedRivals(last'.arg) # {})
       => /\ Len(mempool') = 1 /\ mempool'[1][2] = last'.arg
          /\ \A i \in ReservedRivals(last'.arg) :
               \A h \in InputHashes(mempool[i][2]) \cap DOMAIN utxos' : ~utxos'[h][1]]_vars

(* ------------------------------- C12 ---------------------------------- *)
\* tx must be refused over utxos us: an input references no utxo, two inputs
\* reference the same hash, or the referenced values sum to less than the
\* output values
Refusable(tx, us) ==
  \/ ~(InputHashes(tx) \subseteq DOMAIN us)
  \/ Cardinality(InputHashes(tx)) # Len(tx.inputs)
  \/ InputSum(tx.inputs, us) < SumSeq(Values(tx.outputs))

\* the number of entries of mempool mp that hold tx
Copies(mp, tx) == Cardinality({i \in 1 .. Len(mp) : mp[i][2] = tx})

\* C12: add_transaction_to_mempool returns InvalidTransaction and does not
\* put the transaction in the mempool when an input references a hash absent
\* from utxos, two inputs reference the same hash, or the input values sum to
\* less than the output values; otherwise it returns Ok and the transaction
\* is in the mempool.
C12_AdmissionResult ==
  [][last'.op = "add_transaction_to_mempool"
       => IF Refusable(last'.arg, utxos)
          THEN /\ last'.res = "InvalidTransaction"
               /\ Copies(mempool', last'.arg) = Copies(mempool, last'.arg)
          ELSE /\ last'.res = "Ok"
               /\ Copies(mempool', last'.arg) = Copies(mempool, last'.arg) + 1]_vars

(* ------------------------------- C13 ---------------------------------- *)
\* the miner fee of tx over utxos us: the sum of the referenced input values
\* less the sum of the output values
ExactFee(tx, us) == InputSum(tx.inputs, us) - SumSeq(Values(tx.outputs))

\* C13: the mempool is ordered by non-increasing miner fee (among the
\* entries whose inputs all reference utxos, so that their fee is defined).
C13_MempoolByFee ==
  \A i, j \in 1 .. Len(mempool) :
    (/\ i < j
     /\ InputHashes(mempool[i][2]) \subseteq DOMAIN utxos
     /\ InputHashes(mempool[j][2]) \subseteq DOMAIN utxos)
      => ExactFee(mempool[i][2], utxos) >= ExactFee(mempool[j][2], utxos)

(* ------------------------------- C14 ---------------------------------- *)
\* the target the adjustment rule names for blocks bs and target t:
\* min(MIN_TARGET, clamp(floor(t * dt / ideal), t / 4, t * 4)), dt the seconds
\* from the block DIFFICULTY_UPDATE_INTERVAL positions from the end to the last
FloorTarget(bs, t) ==
  LET dt == bs[Len(bs)].header.timestamp
              - bs[Len(bs) - DIFFICULTY_UPDATE_INTERVAL + 1].header.timestamp
      raw == (t * dt) \div (IDEAL_BLOCK_TIME * DIFFICULTY_UPDATE_INTERVAL)
      clamped == IF raw < t \div 4 THEN t \div 4 ELSE IF raw > t * 4 THEN t * 4 ELSE raw
  IN IF clamped < MIN_TARGET THEN clamped ELSE MIN_TARGET

\* blocks.len() is a positive multiple of DIFFICULTY_UPDATE_INTERVAL
AtInterval == Len(blocks) > 0 /\ Len(blocks) % DIFFICULTY_UPDATE_INTERVAL = 0

\* C14: try_adjust_target leaves the target unchanged unless blocks.len() is
\* a positive multiple of DIFFICULTY_UPDATE_INTERVAL, and at such a length
\* sets it to min(MIN_TARGET, clamp(floor(target * dt / ideal), target / 4,
\* target * 4)).
C14_AdjustmentRule ==
  [][last'.op = "try_adjust_target"
       => IF AtInterval
          THEN last'.res = "Ok" /\ target' = FloorTarget(blocks, target)
          ELSE last'.res = "Ok" /\ target' = target]_vars

(* ------------------------------- C15 ---------------------------------- *)
\* (INITIAL_REWARD * 10^8) >> (h / HALVING_INTERVAL)
ShiftedReward(h) == INITIAL_REWARD \div 2 ^ (h \div HALVING_INTERVAL)

\* C15: at every height h, calculate_block_reward returns, and
\* verify_coinbase_transaction requires of a coinbase without fees,
\* (INITIAL_REWARD * 10^8) >> (h / HALVING_INTERVAL).
C15_RewardAtHeight ==
  [][IF last'.op = "calculate_block_reward"
     THEN last'.res = ToString(ShiftedReward(Len(blocks)))
     ELSE IF last'.op = "verify_coinbase_transaction"
     THEN last'.res = (IF last'.arg.outputs[1].value = ShiftedReward(Len(blocks))
                       THEN "Ok" ELSE "InvalidTransaction")
     ELSE TRUE]_vars

(* ------------------------------- C16 ---------------------------------- *)
\* the transactions FetchTemplate selects: the first
\* min(BLOCK_TRANSACTION_CAP, mempool length) of the mempool, in its order
Selected == Take(Transactions(mempool), BLOCK_TRANSACTION_CAP)

RECURSIVE FeesOf(_, _)
\* the miner fees of the transactions txs over utxos us: what their inputs
\* are worth less what their outputs pay
FeesOf(txs, us) == IF txs = <<>> THEN 0 ELSE ExactFee(Head(txs), us) + FeesOf(Tail(txs), us)

\* the handler served a FetchTemplate request with a Template
ServedTemplate == last'.op = "FetchTemplate" /\ last'.res = "Ok"

\* C16: the block returned for FetchTemplate(pubkey) starts with a coinbase
\* without inputs and with a single output to pubkey of block_reward(height)
\* plus the miner fees of the selected transactions, followed by the first
\* min(BLOCK_TRANSACTION_CAP, mempool length) mempool transactions in order;
\* its header has nonce 0, the current target and the Merkle root of that list.
C16_TemplateContents ==
  [][ServedTemplate
       => /\ Len(replies') = 1
          /\ replies'[1].kind = "Template"
          /\ LET served == replies'[1].body
                 coinbase == served.transactions[1]
             IN /\ coinbase.inputs = <<>>
                /\ Len(coinbase.outputs) = 1
                /\ coinbase.outputs[1].pubkey = last'.arg.msg
                /\ coinbase.outputs[1].value
                     = ShiftedReward(Len(blocks)) + FeesOf(Selected, utxos)
                /\ Tail(served.transactions) = Selected
                /\ served.header.nonce = 0
                /\ served.header.target = target
                /\ served.header.merkle_root = MerkleRoot(served.transactions)]_vars

(* ------------------------------- C17 ---------------------------------- *)
\* C17: every FetchTemplate request read from a live connection is answered
\* with exactly one Template message, whatever the mempool holds.
C17_TemplateAnswered ==
  [][last'.op = "FetchTemplate"
       => /\ Len(replies') = 1
          /\ replies'[1].kind = "Template"
          /\ last'.arg.conn \in live']_vars

(* ------------------------------- C18 ---------------------------------- *)
\* C18: after a FetchTemplate request was served, every utxo consumed by a
\* transaction selected into the template is marked reserved.
C18_SelectedReserved ==
  [][ServedTemplate
       => \A i \in 1 .. Len(Selected) :
            \A h \in InputHashes(Selected[i]) : h \in DOMAIN utxos' /\ utxos'[h][1]]_vars

(* ------------------------------- C19 ---------------------------------- *)
\* the blockchain is left as it was
SameChain == UNCHANGED <<blocks, utxos, target, mempool>>

\* C19: on SubmitTemplate(block) the node calls add_block; on success it
\* runs rebuild_utxos before any other task acts on the blockchain and then
\* sends NewBlock(block) to every peer in NODES; on failure it sends no
\* NewBlock and the blockchain is unchanged.
C19_SubmitTemplate ==
  [][/\ last'.op = "SubmitTemplate"
          => IF last'.res = "Ok"
             THEN /\ blocks' = Append(blocks, guard'.msg[1])
                  /\ guard'.holder = last'.arg.conn
                  /\ guard'.next = "rebuild_utxos"
             ELSE SameChain /\ nodes' = nodes /\ guard' = Unlocked
     /\ guard.next = "rebuild_utxos"
          => /\ last'.op = "rebuild_utxos"
             /\ utxos' = RebuiltUtxos(utxos, blocks)
             /\ guard' = [guard EXCEPT !.next = "NewBlock"]
     /\ guard.next = "NewBlock"
          => /\ SameChain
             /\ \A p \in Peers : nodes'[p] = <<Msg("NewBlock", guard.msg[1])>>
             /\ guard' = Unlocked]_vars

(* ------------------------------- C20 ---------------------------------- *)
\* the handler's call returned an error
Rejected == last'.res \notin {"Ok", "panic"}

\* C20: a NewTransaction or NewBlock that the blockchain rejects ends the
\* handler of that connection, and no other connection is affected.
C20_RejectionCloses ==
  [][(last'.op \in {"NewTransaction", "NewBlock"} /\ Rejected)
       => live' = live \ {last'.arg.conn}]_vars

(* ------------------------------- C30 ---------------------------------- *)
\* the header a call of mine tries after j advances from header h, the clock
\* reading t: the nonce counts on modulo 2^64, and once it has passed u64::MAX
\* the timestamp is t
Tried(h, j, t) ==
  [h EXCEPT !.nonce = (h.nonce + j) % (U64_MAX + 1),
            !.timestamp = IF h.nonce + j > U64_MAX THEN t ELSE h.timestamp]

\* C30: mine(steps) returns true only if the header's hash meets its target
\* on return; it returns false only after advancing the nonce steps times
\* with no tried value meeting the target; it changes only the nonce, and the
\* timestamp exactly when the nonce wraps from u64::MAX to 0.
C30_MineContract ==
  [][last'.op = "mine"
       => LET h == last'.arg.header
              steps == last'.arg.steps
              after == block'[1].header
              advances == (after.nonce - h.nonce) % (U64_MAX + 1)
          IN /\ last'.res = "true" => MatchesTarget(after, after.target)
             /\ last'.res = "false"
                  => /\ advances = steps % (U64_MAX + 1)
                     /\ \A j \in 0 .. steps :
                          ~MatchesTarget(Tried(h, j, now'), h.target)
             /\ after = Tried(h, advances, now')
             /\ after.prev_block_hash = h.prev_block_hash
             /\ after.merkle_root = h.merkle_root
             /\ after.target = h.target
             /\ block'[1].transactions = block[1].transactions]_vars

\* a call of mine wrapped the nonce from u64::MAX to 0, refreshed the
\* timestamp and went on to a nonce that meets the target
C30_Witness ==
  /\ last.op = "mine"
  /\ last.res = "true"
  /\ block[1].header.nonce < last.arg.header.nonce
  /\ block[1].header.timestamp # last.arg.header.timestamp

(* C21: a receiver that gets a message variant it does not expect closes the
   connection: the node's handler on UTXOs, Template, Difference,
   TemplateValidity or NodeList; the miner on anything but Template after
   FetchTemplate or TemplateValidity after ValidateTemplate; the
   bootstrapping node on anything but NodeList, Difference or NewBlock in
   answer to DiscoverNodes, AskDifference or FetchBlock, after which the
   peer's stream is no longer among NODES. *)
C21_UnexpectedCloses ==
  [][/\ last'.op = "Unexpected" => last'.arg.conn \notin live'
     /\ (last'.op \in {"fetch_template", "validate_template"} /\ last'.res = "UnexpectedMessage")
          => miner'.stream = "closed"
     /\ (last'.op \in {"DiscoverNodes", "AskDifference", "FetchBlock"} /\ last'.res = "unexpected")
          => last'.arg.peer \notin DOMAIN nodes']_vars

(* C27: every solved block posted to the mined-block channel is received by
   the control task and sent as SubmitTemplate exactly once, as long as the
   connection works: the channel changes only by a post at its end or by a
   submit_block of its head, each block in the channel is eventually the one
   submit_block sends (or the stream has failed), and mining is false right
   after the send. *)
SolvedBlocks ==
  {WithHeader(t, Mine(t.header, MINE_STEPS, 0).header) :
     t \in {u \in MinerTemplates : Mine(u.header, MINE_STEPS, 0).found}}

C27_SubmittedOnce ==
  /\ [][/\ miner'.mined_block # miner.mined_block
           => \/ /\ last'.op = "send"
                 /\ miner'.mined_block = Append(miner.mined_block, last'.arg.block)
              \/ /\ last'.op = "submit_block"
                 /\ miner.mined_block # <<>>
                 /\ last'.arg.block = Head(miner.mined_block)
                 /\ miner'.mined_block = Tail(miner.mined_block)
        /\ last'.op = "submit_block"
           => /\ miner.mined_block # <<>>
              /\ last'.arg.block = Head(miner.mined_block)
              /\ miner'.mined_block = Tail(miner.mined_block)
              /\ last'.res = "Ok" => ~miner'.mining]_vars
  /\ \A b \in SolvedBlocks :
       (\E i \in DOMAIN miner.mined_block : miner.mined_block[i] = b)
         ~> \/ last.op = "submit_block" /\ last.arg.block = b
            \/ miner.stream = "closed"

C27_Witness ==
  /\ last.op = "submit_block"
  /\ last.res = "Ok"
  /\ last.arg.block \in SolvedBlocks
  /\ pc.worker = "store"
  /\ ~miner.mining

(* C28: while mining stays true and the template is unchanged, the repeated
   mine calls of the worker continue the nonce search: if some nonce meets
   the template's target, the worker eventually posts the solved block,
   unless mining is cleared, the template replaced or the process ended
   first. *)
Solvable(t) ==
  \E n \in 0..U64_MAX : MatchesTarget([t.header EXCEPT !.nonce = n], t.header.target)

C28_SearchContinues ==
  \A t \in {u \in MinerTemplates : Solvable(u)} :
    (miner.mining /\ miner.current_template = <<t>>)
      ~> \/ ~miner.mining
         \/ miner.current_template # <<t>>
         \/ ~Runs
         \/ \E i \in DOMAIN miner.mined_block :
              /\ miner.mined_block[i].transactions = t.transactions
              /\ MatchesTarget(miner.mined_block[i].header, t.header.target)

(* C29: once the running flag is cleared, the control task and the worker
   stop after at most one further iteration each: the control task begins at
   most one more fetch, validation or submission, the worker at most one
   more mine call. *)
C29_InterruptStops ==
  /\ pc.after.control <= 1
  /\ pc.after.worker <= 1

(* C22: no handler holds the BLOCKCHAIN write lock while it writes to the
   network: when a message is written to the peers of NODES or an answer to
   the handled connection, no write guard is alive; in SubmitTemplate and
   SubmitTransaction the lock is released before the broadcast. *)
C22_NoLockAcrossIO ==
  [][(last'.op = "broadcast" \/ nodes' # nodes \/ replies' # <<>>) => guard = Unlocked]_vars

(* C26: the reserved flags of the utxos never affect add_block: on a state
   that differs from the current one only in the flags, add_block of the
   same block gives the same result (the same acceptance or the same error)
   and leaves the same blocks and the same target. *)
Reflagged(us, flags) == [h \in DOMAIN us |-> <<flags[h], us[h][2]>>]

C26_FlagsIgnored ==
  [][last'.op = "add_block"
     => \A flags \in [DOMAIN utxos -> BOOLEAN] :
          LET r == AddBlockCheck(blocks, Reflagged(utxos, flags), last'.arg, overflow_checks)
              adj == AdjustedTarget(Append(blocks, last'.arg), target)
          IN IF r = "Ok"
             THEN /\ last'.res = adj.res
                  /\ blocks' = Append(blocks, last'.arg)
                  /\ target' = adj.target
             ELSE /\ last'.res = r
                  /\ blocks' = blocks
                  /\ target' = target]_vars

C26_Witness ==
  /\ last.op = "add_block"
  /\ last.res = "Ok"
  /\ \E i \in DOMAIN last.arg.transactions : \E j \in DOMAIN last.arg.transactions[i].inputs :
       LET o == last.arg.transactions[i].inputs[j].prev_transaction_output_hash
       IN o \in DOMAIN utxos /\ utxos[o][1]

(* C25: what load reads from the bytes save wrote is equal to the saved
   Blockchain in blocks, utxos (with their flags) and target, and its mempool
   is empty, whatever the mempool of the saved Blockchain was.  (As first
   stated: equal in all fields, the mempool included.) *)
C25_RoundTripAllFields ==
  [][last'.op = "save"
     => Loaded(file'[1]) = [utxos |-> utxos, target |-> target, blocks |-> blocks,
                            mempool |-> mempool]]_vars

C25_RoundTrip ==
  [][/\ last'.op = "save"
        => Loaded(file'[1]) = [utxos |-> utxos, target |-> target, blocks |-> blocks,
                               mempool |-> <<>>]
     /\ last'.op = "load"
        => /\ Saved(blocks', utxos', target', mempool') = file[1]
           /\ mempool' = <<>>]_vars

C25_Witness ==
  /\ last.op = "save"
  /\ mempool # <<>>
  /\ blocks # <<>>
  /\ \E o \in DOMAIN utxos : utxos[o][1]
  /\ file # <<>>
  /\ Loaded(file[1]).blocks = blocks
  /\ Loaded(file[1]).mempool = <<>>

(* C23: at every moment at most MAX_CONNECTIONS handler tasks run: a
   connection accepted while MAX_CONNECTIONS handlers run gets no handler,
   one accepted while fewer run gets one, and a handler that finishes gives
   its permit back, so that the permits left are always MAX_CONNECTIONS
   less the handlers that run. *)
C23_AdmissionGate ==
  /\ [](/\ Cardinality(live) <= MAX_CONNECTIONS
        /\ permits = MAX_CONNECTIONS - Cardinality(live))
  /\ [][/\ last'.op = "accept"
           => IF Cardinality(live) = MAX_CONNECTIONS
              THEN last'.res = "rejected" /\ live' = live
              ELSE last'.res = "spawned" /\ live' = live \cup {last'.arg.conn}
        /\ (last'.op = "handle_connection" \/ (last'.op = "receive_async" /\ last'.res # "Ok"))
           => permits' = permits + 1 /\ live' = live \ {last'.arg.conn}]_vars

C23_Witness ==
  /\ last.op = "accept"
  /\ last.res = "rejected"
  /\ Cardinality(live) = MAX_CONNECTIONS
  /\ last.arg.conn \notin live
  /\ permits = 0

(* C24: Message::receive and receive_async fail with InvalidData, before a
   buffer is allocated and before any payload is read, whenever the length
   prefix read as a big-endian u64 is greater than MAX_MESSAGE_SIZE; a prefix
   of MAX_MESSAGE_SIZE or less is never rejected for its size. *)
C24_SizeLimit ==
  [][last'.op = "receive_async"
     => /\ FromBeBytes(last'.arg.prefix) > MAX_MESSAGE_SIZE
           => /\ last'.res = "InvalidData"
              /\ buffer' = <<>>
              /\ stream' = <<last'.arg.payload>>
        /\ FromBeBytes(last'.arg.prefix) <= MAX_MESSAGE_SIZE
           => last'.res # "InvalidData"]_vars

(* C32: every block that add_block accepts onto a non-empty chain carries a
   header target equal to the blockchain's target at the moment of the call:
   no block is accepted under an easier target than the chain's. *)
C32_DeclaredTargetIsCurrent ==
  [][(last'.op = "add_block" /\ blocks # <<>> /\ blocks' # blocks)
       => last'.arg.header.target = target]_vars

(* C36: add_transaction_to_mempool never aborts: in every state reachable
   through add_block, rebuild_utxos, cleanup_mempool and earlier calls of
   add_transaction_to_mempool it returns Ok or an error value. *)
C36_AdmissionNeverAborts ==
  [][last'.op = "add_transaction_to_mempool" => last'.res # "panic"]_vars

(* C34: in every chain state reached through add_block the first block has
   prev_block_hash zero, and every later block links to the header hash of
   the block before it and has a timestamp strictly greater than that
   block's. *)
C34_LinkedAndOrdered ==
  /\ blocks # <<>> => blocks[1].header.prev_block_hash = Zero
  /\ \A i \in 2 .. Len(blocks) :
       /\ blocks[i].header.prev_block_hash = HeaderHash(blocks[i - 1].header)
       /\ blocks[i].header.timestamp > blocks[i - 1].header.timestamp

C34_Witness ==
  /\ Len(blocks) >= 2
  /\ last.op = "add_block"
  /\ last.arg = blocks[Len(blocks)]
  /\ last.arg.header.timestamp = blocks[Len(blocks) - 1].header.timestamp + 1

(* C35: whenever add_block returns an error the blockchain is left as it was
   before the call: blocks, utxos (with their flags), mempool and target are
   unchanged. *)
C35_ErrorLeavesState ==
  [][(last'.op = "add_block" /\ last'.res \notin {"Ok", "panic"})
       => UNCHANGED <<blocks, utxos, mempool, target>>]_vars

C35_Witness ==
  /\ last.op = "add_block"
  /\ last.res = "InvalidTransaction"
  /\ blocks # <<>>
  /\ mempool # <<>>
  /\ DOMAIN utxos # {}

(* C33: a template that FetchTemplate returned on a non-empty chain, with
   any nonce under which its hash meets its target, is accepted by the
   node's add_block as long as no other block was appended since: it passes
   the linkage check and verify_transactions. *)
C33_TemplateAccepted ==
  (last.op = "FetchTemplate" /\ last.res = "Ok" /\ blocks # <<>> /\ replies # <<>>)
    => \A n \in 0 .. U64_MAX :
         LET template == replies[1].body
             mined == WithHeader(template, [template.header EXCEPT !.nonce = n])
         IN MatchesTarget(mined.header, mined.header.target)
              => AddBlockCheck(blocks, utxos, mined, overflow_checks) = "Ok"

(* C37: whenever no task holds the BLOCKCHAIN write lock, the node's utxos
   are what rebuild_utxos gives over its current blocks: the index reflects
   every accepted block, whether it came as SubmitTemplate or as NewBlock. *)
C37_IndexReflectsChain ==
  guard = Unlocked => utxos = RebuiltUtxos(utxos, blocks)
\* C38: a freshly started node that downloads from a peer accepts every block
\* the peer serves: when the peer built its chain block by block and the node
\* holds the first i blocks of it, the answer to FetchBlock(i) is appended
C38_DownloadAcceptsPeerChain ==
  [][\A c \in PeerChains :
       (/\ last'.op = "FetchBlock"
        /\ last'.arg.msg = "NewBlock"
        /\ PeerBuilt(c, overflow_checks)
        /\ pc.i < Len(c)
        /\ blocks = SubSeq(c, 1, pc.i)
        /\ last'.arg.body = c[pc.i + 1])
       => blocks' = SubSeq(c, 1, pc.i + 1)]_vars
RECURSIVE BuiltTarget(_)
\* the target of a node that started from Blockchain::default() and accepted
\* the blocks bs one by one: add_block calls try_adjust_target after each push
BuiltTarget(bs) ==
  IF bs = <<>> THEN MIN_TARGET
  ELSE AdjustedTarget(bs, BuiltTarget(SubSeq(bs, 1, Len(bs) - 1))).target

\* C39: a node restored with load_blockchain from the file of a node that
\* built its chain block by block ends with that node's target: no retarget
\* boundary is applied a second time
C39_TargetAdjustedOnce ==
  [][(/\ last'.op = "load_blockchain"
      /\ file[1].target = BuiltTarget(file[1].blocks))
     => target' = BuiltTarget(blocks')]_vars
\* C40: under every interleaving of the control task and the worker, a
\* submitted block is a solved copy of the template the control task stored
\* most recently: the same transactions, link, root and target, and a hash
\* that meets the target
C40_SubmitsCurrentTemplate ==
  [][(last'.op = "submit_block" /\ last'.res = "Ok")
     => /\ miner.current_template # <<>>
        /\ LET t == miner.current_template[1]
               b == last'.arg.block
           IN /\ b.transactions = t.transactions
              /\ b.header.prev_block_hash = t.header.prev_block_hash
              /\ b.header.merkle_root = t.header.merkle_root
              /\ b.header.target = t.header.target
              /\ MatchesTarget(b.header, b.header.target)]_vars
(* ----------------- wallet core.rs: create_transaction ----------------- *)
\* the fee configurations of a wallet: a fixed fee, or a percentage of the amount
FeeConfigs ==
  {[fee_type |-> "Fixed", value |-> v] : v \in {0, 1}} \cup {[fee_type |-> "Percent", value |-> 50]}

\* calculate_fee, lines 147-152: the fixed value, or the percentage of the
\* amount; the cast of the f64 to u64 drops the fraction and saturates
CalculateFee(fee, amount) ==
  LET exact == IF fee.fee_type = "Fixed" THEN fee.value ELSE (amount * fee.value) \div 100
  IN IF exact > U64_MAX THEN U64_MAX ELSE exact

\* what a node answers FetchUTXOs(key) with: no utxo, one unreserved utxo, a
\* reserved and an unreserved one, or two unreserved ones whose sum exceeds u64
KeyAnswers(k) ==
  {<<>>,
   <<<<FALSE, Output(3, 10 * k + 1, k)>>>>,
   <<<<TRUE, Output(2, 10 * k + 1, k)>>, <<FALSE, Output(4, 10 * k + 2, k)>>>>,
   <<<<FALSE, Output(4, 10 * k + 1, k)>>, <<FALSE, Output(4, 10 * k + 2, k)>>>>}

RECURSIVE Fetched(_, _, _)
\* fetch_utxos, lines 53-72: for every key of my_keys in turn the answer
\* replaces the key's list; an answer that is no UTXOs message ends the loop
Fetched(store, keys, answers) ==
  IF keys = <<>> THEN [res |-> "Ok", utxos |-> store]
  ELSE IF answers[Head(keys)].kind # "UTXOs"
       THEN [res |-> "Unexpected response from node", utxos |-> store]
       ELSE Fetched(Insert(store, Head(keys), answers[Head(keys)].body), Tail(keys), answers)

RECURSIVE Entries(_, _)
\* the (marked, utxo) pairs in the order the loops of lines 100-128 visit
\* them: the SkipMap iterates its keys in order, from key k on
Entries(store, k) ==
  IF k > NumKeys THEN <<>>
  ELSE (IF k \in DOMAIN store
        THEN [i \in 1 .. Len(store[k]) |->
                [pubkey |-> k, marked |-> store[k][i][1], utxo |-> store[k][i][2]]]
        ELSE <<>>) \o Entries(store, k + 1)

RECURSIVE Gathered(_, _, _, _, _)
\* the loops of lines 100-128 over the entries es: a marked utxo is skipped,
\* the loops end once input_sum >= total_amount, an input is signed with the
\* key of its list and input_sum += utxo.value() in u64
Gathered(es, total_amount, inputs, input_sum, checks) ==
  IF es = <<>> THEN [res |-> "Ok", inputs |-> inputs, input_sum |-> input_sum]
  ELSE IF Head(es).marked THEN Gathered(Tail(es), total_amount, inputs, input_sum, checks)
  ELSE IF input_sum >= total_amount
       THEN [res |-> "Ok", inputs |-> inputs, input_sum |-> input_sum]
  ELSE IF checks /\ Overflows(input_sum + Head(es).utxo.value)
       THEN [res |-> "panic", inputs |-> inputs, input_sum |-> input_sum]
  ELSE LET h == OutputHash(Head(es).utxo)
       IN Gathered(Tail(es), total_amount, Append(inputs, Input(h, Sign(h, Head(es).pubkey))),
                   Wrap(input_sum + Head(es).utxo.value), checks)

\* create_transaction(recipient, amount), lines 91-145, on the wallet c: the
\* result and the transaction; the fresh uuids are 91 and 92
CreatedTransaction(c, recipient, amount, checks) ==
  LET fee == CalculateFee(c.fee, amount)
      total_amount == Wrap(amount + fee)
      g == Gathered(Entries(c.utxos, 1), total_amount, <<>>, 0, checks)
      change == IF g.input_sum > total_amount
                THEN <<Output(g.input_sum - total_amount, 92, c.my_keys[1])>> ELSE <<>>
  IN IF checks /\ Overflows(amount + fee) THEN [res |-> "panic", transaction |-> <<>>]
     ELSE IF g.res = "panic" THEN [res |-> "panic", transaction |-> <<>>]
     ELSE IF g.input_sum < total_amount
          THEN [res |-> "Insufficient funds", transaction |-> <<>>]
     ELSE [res |-> "Ok",
           transaction |-> <<Tx(g.inputs, <<Output(amount, 91, recipient)>> \o change)>>]

\* Core::load, lines 42-52: the configuration is read and the keys are added
\* to an empty UtxoStore
InitWallet ==
  /\ blocks = <<>>
  /\ utxos = EmptyMap
  /\ target = MIN_TARGET
  /\ mempool = <<>>
  /\ now = 0
  /\ last = Call("load", <<>>, "Ok")
  /\ overflow_checks \in BOOLEAN
  /\ NoNode
  /\ permits = MAX_CONNECTIONS
  /\ file = <<>>
  /\ miner = NoMiner
  /\ running = TRUE
  /\ block = <<>>
  /\ pc = "serve"
  /\ stream = <<>>
  /\ buffer = <<>>
  /\ usize_bits = U64_BITS
  /\ core \in {[fee |-> f, my_keys |-> ks, utxos |-> EmptyMap] :
                 f \in FeeConfigs, ks \in Orders(Keys)}

\* fetch_utxos()
FetchUtxos ==
  /\ \E answers \in [Keys -> {Msg("NodeList", <<>>)}
                                \cup {Msg("UTXOs", a) : a \in UNION {KeyAnswers(k) : k \in Keys}}] :
       /\ \A k \in Keys : answers[k].kind = "UTXOs" => answers[k].body \in KeyAnswers(k)
       /\ LET f == Fetched(core.utxos, core.my_keys, answers)
          IN /\ core' = [core EXCEPT !.utxos = f.utxos]
             /\ last' = Call("fetch_utxos", <<>>, f.res)
  /\ UNCHANGED <<blocks, utxos, target, mempool, now, overflow_checks, live, guard, nodes, replies>>
  /\ UNCHANGED <<permits, file, miner, running, block, pc, stream, buffer, usize_bits>>

\* create_transaction(recipient, amount) for a key and an amount typed at the
\* prompt (cli.rs lines 49-61)
CreateTransaction ==
  /\ \E recipient \in Keys, amount \in 0 .. U64_MAX :
       LET r == CreatedTransaction(core, recipient, amount, overflow_checks)
       IN last' = Call("create_transaction",
                       [recipient |-> recipient, amount |-> amount, transaction |-> r.transaction],
                       r.res)
  /\ UNCHANGED <<blocks, utxos, target, mempool, now, overflow_checks, live, guard, nodes, replies>>
  /\ UNCHANGED <<permits, file, miner, running, block, pc, stream, buffer, usize_bits, core>>

NextWallet ==
  \/ FetchUtxos
  \/ CreateTransaction

\* a wallet that fetches its utxos and creates transactions
SpecWallet == InitWallet /\ [][NextWallet]_vars

\* the unreserved utxos of the wallet, in the order they are visited
Unreserved == SelectSeq(Entries(core.utxos, 1), LAMBDA e : ~e.marked)

\* the exact sum of the values of the first n unreserved utxos
FirstValues(n) == SumSeq([i \in 1 .. n |-> Unreserved[i].utxo.value])

\* C31: create_transaction fails with "Insufficient funds" when the unreserved
\* utxos sum to less than amount + fee; otherwise it spends the first
\* unreserved utxos, no more than needed to reach amount + fee, pays amount to
\* the recipient in the first output, and returns the remainder, when
\* positive, to the first own key, so that inputs less outputs is the fee
C31_CreateTransaction ==
  [][last'.op = "create_transaction"
     => LET amount == last'.arg.amount
            fee == CalculateFee(core.fee, amount)
            all == FirstValues(Len(Unreserved))
        IN IF all < amount + fee THEN last'.res = "Insufficient funds"
           ELSE /\ last'.res = "Ok"
                /\ LET tx == last'.arg.transaction[1]
                       n == Len(tx.inputs)
                       rest == FirstValues(n) - amount - fee
                   IN /\ n <= Len(Unreserved)
                      /\ \A i \in 1 .. n :
                           tx.inputs[i] = Input(OutputHash(Unreserved[i].utxo),
                                                Sign(OutputHash(Unreserved[i].utxo), Unreserved[i].pubkey))
                      /\ rest >= 0
                      /\ n > 0 => FirstValues(n - 1) < amount + fee
                      /\ tx.outputs[1].value = amount
                      /\ tx.outputs[1].pubkey = last'.arg.recipient
                      /\ FirstValues(n) - SumSeq(Values(tx.outputs)) = fee
                      /\ IF rest > 0
                         THEN /\ Len(tx.outputs) = 2
                              /\ tx.outputs[2].value = rest
                              /\ tx.outputs[2].pubkey = core.my_keys[1]
                         ELSE Len(tx.outputs) = 1]_vars
====
